---------------------------- MODULE Spec2Model ----------------------------
(***************************************************************************)
(* The store application of ssammarshall/E-commerce_project: carts, cart   *)
(* items, orders and order items as rows of a relational store, and the    *)
(* REST handlers of store/views.py and store/serializers.py as sequences   *)
(* of ORM statements run by concurrent request handlers.                   *)
(*                                                                         *)
(* The store: every ORM statement is one atomic step.  Plain reads see     *)
(* committed rows only.  A statement that writes outside an atomic block   *)
(* commits at once (autocommit).  Inside transaction.atomic the rows a     *)
(* request inserts or deletes are kept in its record until the block ends: *)
(* they are applied together on commit and dropped on an exception.  A row *)
(* deleted by an open transaction is locked: a writer of that row waits.   *)
(* An atomic block whose last statement is its only write to shared rows   *)
(* is modelled with that write and the commit as one step.                 *)
(***************************************************************************)
EXTENDS Integers, FiniteSets, Sequences, TLC

(* ------------------------------ bounds -------------------------------- *)
MaxCarts == 1
MaxCartItemId == 2
MaxQuantity == 3
MaxOrderId == 3

(* ------------------------------ domains ------------------------------- *)
Reqs == {"r1", "r2"}

Anon == "anon"
Users == {"alice", "bob", "staff"}
Callers == Users \cup {Anon}

IsStaff(u) == u = "staff"
IsAuthenticated(u) == u # Anon

CartIds == 1..MaxCarts
ProductIds == {1, 2, 3}
Quantities == {0, 1, 2}

STATUS_PENDING == "P"
STATUS_SHIPPED == "S"
STATUS_TRANSIT == "T"
STATUS_DELIVERY == "D"
STATUS_COMPLETE == "C"
STATUS_FAILED == "F"
STATUS_CANCELLED == "X"
STATUS_CHOICES ==
    {STATUS_PENDING, STATUS_SHIPPED, STATUS_TRANSIT, STATUS_DELIVERY,
     STATUS_COMPLETE, STATUS_FAILED, STATUS_CANCELLED}

(* error texts of the handlers *)
MsgNoProduct == "No product with given product id was found."
MsgQuantity == "Ensure this value is greater than or equal to 1."
MsgEmptyCart == "No items found in cart. Cannot create an empty order."
MsgNoCustomer == "No customer with given user id was found."
MsgNotPending == "Only pending orders can be cancelled."
MsgNotFound == "Not found."
MsgNotAuthenticated == "Authentication credentials were not provided."
MsgIntegrityError == "IntegrityError"
MsgBadField == "Field name payment_status is not valid for model Order."
MsgForbidden == "You do not have permission to perform this action."
MsgBadChoice == "is not a valid choice."
MsgNotAllowed == "Method not allowed."

VARIABLES
    carts,            \* ids of the Cart rows
    cartItems,        \* CartItem rows [id, cart, product, quantity]
    nextCartId,       \* the next fresh Cart id (uuid4)
    customers,        \* Customer rows [id, user]
    products,         \* ids of the Product rows
    collections,      \* Collection rows [id, featured] (featured 0: none)
    collectionOf,     \* Product.collection_id of every Product row
    priceOf,          \* Product.price of every Product row
    inventoryOf,      \* Product.inventory of every Product row
    reviews,          \* Review rows [id, product, name, description]
    orders,           \* Order rows [id, customer, status]
    orderItems,       \* OrderItem rows [id, order, product, quantity]
    convertedFrom,    \* history: committed conversions as <<order id, cart id>>
    req               \* the request handlers: position, arguments, locals, response

vars == <<carts, cartItems, nextCartId, customers, products, collections,
          collectionOf, priceOf, inventoryOf, reviews, orders, orderItems,
          convertedFrom, req>>

cartVars == <<carts, cartItems, nextCartId>>
orderVars == <<orders, orderItems, convertedFrom>>
priceVars == <<priceOf, inventoryOf>>
catalogVars == <<customers, products, collections, collectionOf, priceVars, reviews>>

(* ------------------------------ records ------------------------------- *)
NoRow == [id |-> 0, cart |-> 0, product |-> 0, quantity |-> 0]
NoResp == [code |-> 0, errors |-> {}, row |-> NoRow, ids |-> {}, totals |-> {}]

Resp(code, errors, row) ==
    [code |-> code, errors |-> errors, row |-> row, ids |-> {}, totals |-> {}]
\* The response to a list request: the ids of the rows it shows.
ListResp(code, errors, ids) ==
    [code |-> code, errors |-> errors, row |-> NoRow, ids |-> ids, totals |-> {}]
\* The response that shows rows with computed prices: totals pairs the id of each
\* item shown with its total_price, and 0 with the total_price of the whole.
TotalsResp(code, ids, totals) ==
    [code |-> code, errors |-> {}, row |-> NoRow, ids |-> ids, totals |-> totals]

Idle ==
    [pc |-> "idle", kind |-> "none", user |-> Anon, cart |-> 0, product |-> 0,
     quantity |-> 0, item |-> 0, order |-> 0, status |-> "", collection |-> 0,
     price |-> {},         \* the price of the payload, if it has one
     inventory |-> {},     \* the inventory of the payload, if it has one
     description |-> "",   \* the description of the payload
     found |-> NoRow,      \* the CartItem the handler read
     items |-> {},         \* the CartItems the conversion read
     customer |-> 0,       \* the Customer the conversion resolved
     cartSeen |-> FALSE,   \* the delete collector found the Cart row
     newOrder |-> {},      \* uncommitted: the Order row inserted
     newItems |-> {},      \* uncommitted: the OrderItem rows inserted
     delItems |-> {},      \* uncommitted: the CartItem rows deleted (locked)
     resp |-> NoResp]      \* the response, once the handler has returned

InFlight(r) == req[r].pc # "idle"

\* The handler of request q in slot r returns resp: whatever its transaction had
\* not committed is gone; the arguments and the response stay until Reply.
Answer(r, q, resp) ==
    req' = [req EXCEPT ![r] =
              [Idle EXCEPT !.pc = "done", !.kind = q.kind, !.user = q.user,
                           !.cart = q.cart, !.product = q.product,
                           !.quantity = q.quantity, !.item = q.item,
                           !.order = q.order, !.status = q.status,
                           !.collection = q.collection, !.price = q.price,
                           !.inventory = q.inventory, !.description = q.description,
                           !.resp = resp]]

(* --------------------------- store helpers ---------------------------- *)
ItemsOfCart(c) == {x \in cartItems : x.cart = c}
ItemsOfPair(c, p) == {x \in cartItems : x.cart = c /\ x.product = p}
ItemsWithId(i) == {x \in cartItems : x.id = i}
QuantityOfPair(c, p) ==
    IF ItemsOfPair(c, p) = {} THEN 0 ELSE (CHOOSE x \in ItemsOfPair(c, p) : TRUE).quantity

\* Rows deleted by a transaction of another request that is still open.
LockedBy(r) == UNION {req[s].delItems : s \in Reqs \ {r}}
Locked(r, rows) == rows \cap LockedBy(r) # {}

\* Primary keys (AutoField).  The store hands out an id that no row holds; the
\* model takes the least id held by no row, committed or not, and by no handler.
Least(S) == CHOOSE n \in S : \A m \in S : n <= m
IdsOf(rows) == {x.id : x \in rows}
HeldCartItemIds ==
    IdsOf(cartItems) \cup
    UNION {IdsOf({req[s].found} \cup req[s].items \cup req[s].delItems) : s \in Reqs}
FreshCartItemId == Least((1..(MaxCartItemId + 1)) \ HeldCartItemIds)
HeldOrderIds == IdsOf(orders) \cup UNION {IdsOf(req[s].newOrder) : s \in Reqs}
FreshOrderId == Least((1..(MaxOrderId + 1)) \ HeldOrderIds)
HeldOrderItemIds == IdsOf(orderItems) \cup UNION {IdsOf(req[s].newItems) : s \in Reqs}
FreshOrderItemId(j) ==
    LET free == (1..(Cardinality(HeldOrderItemIds) + j + 1)) \ HeldOrderItemIds
    IN CHOOSE n \in free : Cardinality({m \in free : m < n}) = j

\* unique_product_per_cart: another row holds the same (cart, product).
UniqueViolationNone(row) == FALSE
UniqueViolation(row) ==
    \E x \in cartItems : x.cart = row.cart /\ x.product = row.product /\ x.id # row.id

\* The foreign keys of a CartItem row: its Cart and its Product exist.
ForeignKeyViolation(row) == row.cart \notin carts \/ row.product \notin products

(* ------------------------------- Init --------------------------------- *)
\* Two customers, two collections with one product each, and one earlier order of the first customer, in
\* status s (any status can be set on the admin site, store/admin.py OrderAdmin).
InitStore(s, cs, items) ==
    /\ carts = cs
    /\ cartItems = items
    /\ nextCartId = Cardinality(cs) + 1
    /\ customers = {[id |-> 1, user |-> "alice"], [id |-> 2, user |-> "bob"]}
    /\ products = {1, 2}
    /\ collections = {[id |-> 1, featured |-> 0], [id |-> 2, featured |-> 0]}
    /\ collectionOf = [pr \in {1, 2} |-> pr]
    /\ priceOf = [pr \in {1, 2} |-> 1]
    /\ inventoryOf = [pr \in {1, 2} |-> 1]
    /\ reviews = {}
    /\ orders = {[id |-> 1, customer |-> 1, status |-> s]}
    /\ orderItems = {[id |-> 1, order |-> 1, product |-> 1, quantity |-> 1]}
    /\ convertedFrom = {<<1, 0>>}
    /\ req = [r \in Reqs |-> Idle]

\* No cart yet.
Init == InitStore(STATUS_PENDING, {}, {})
InitAnyStatus == \E s \in STATUS_CHOICES : InitStore(s, {}, {})

\* Two carts, each holding product 1 once.
InitTwoCarts ==
    InitStore(STATUS_PENDING, {1, 2},
              {[id |-> 1, cart |-> 1, product |-> 1, quantity |-> 1],
               [id |-> 2, cart |-> 2, product |-> 1, quantity |-> 1]})

\* One cart, empty or holding product 1 once.
InitOneCart ==
    \E items \in {{}, {[id |-> 1, cart |-> 1, product |-> 1, quantity |-> 1]}} :
        InitStore(STATUS_PENDING, {1}, items)

(* --------------------------- POST /carts/ ----------------------------- *)
\* CartViewSet.create: a Cart row with a fresh id.
CreateCart(r) ==
    /\ ~InFlight(r)
    /\ nextCartId <= MaxCarts
    /\ carts' = carts \cup {nextCartId}
    /\ nextCartId' = nextCartId + 1
    /\ Answer(r, [Idle EXCEPT !.kind = "createCart", !.cart = nextCartId],
              Resp(201, {}, NoRow))
    /\ UNCHANGED <<cartItems, orderVars, catalogVars>>

(* --------------------- POST /carts/{c}/items/ ------------------------- *)
\* Product.objects.filter(pk=value).exists() in validate_product_id.
ProductExistsAlways(p) == TRUE
ProductExists(p) == p \in products

\* CartItemPostSerializer field validation (is_valid).
AddItemErrorsQuantityFree(p, q) == IF ~ProductExists(p) THEN {MsgNoProduct} ELSE {}
AddItemErrors(p, q) ==
    (IF ~ProductExists(p) THEN {MsgNoProduct} ELSE {})
    \cup (IF q < 1 THEN {MsgQuantity} ELSE {})

\* CartItemViewSet.create up to serializer.save(): validation of the payload.
AddItemRequest(r, c, p, q) ==
    /\ ~InFlight(r)
    /\ LET started == [Idle EXCEPT !.pc = "ai_get", !.kind = "addItem", !.cart = c,
                                   !.product = p, !.quantity = q]
       IN IF AddItemErrors(p, q) # {}
          THEN Answer(r, started, Resp(400, AddItemErrors(p, q), NoRow))
          ELSE req' = [req EXCEPT ![r] = started]
    /\ UNCHANGED <<cartVars, orderVars, catalogVars>>

\* CartItem.objects.get(cart_id=..., product_id=...): the row, or DoesNotExist.
AddItemGet(r) ==
    /\ req[r].pc = "ai_get"
    /\ LET hit == ItemsOfPair(req[r].cart, req[r].product)
       IN req' = [req EXCEPT ![r] =
                    IF hit # {}
                    THEN [req[r] EXCEPT !.pc = "ai_save", !.found = CHOOSE x \in hit : TRUE]
                    ELSE [req[r] EXCEPT !.pc = "ai_create"]]
    /\ UNCHANGED <<cartVars, orderVars, catalogVars>>

\* Model.save() of a CartItem instance: UPDATE by primary key and, when no row
\* has that key any more, INSERT.  The outcome: <<ok, the table afterwards>>.
SaveCartItem(row) ==
    IF ItemsWithId(row.id) # {}
    THEN <<TRUE, (cartItems \ ItemsWithId(row.id)) \cup {row}>>
    ELSE IF ForeignKeyViolation(row) \/ UniqueViolation(row)
         THEN <<FALSE, cartItems>>
         ELSE <<TRUE, cartItems \cup {row}>>

\* The quantity cart_item.save() writes: the quantity read plus the quantity given.
MergedQuantityOverwrite(old, q) == q
MergedQuantity(old, q) == old + q

\* cart_item.quantity += quantity; cart_item.save(); the atomic block commits.
AddItemSave(r) ==
    /\ req[r].pc = "ai_save"
    /\ MergedQuantity(req[r].found.quantity, req[r].quantity) <= MaxQuantity
    /\ LET row == [req[r].found EXCEPT
                     !.quantity = MergedQuantity(req[r].found.quantity, req[r].quantity)]
           out == SaveCartItem(row)
       IN /\ ~Locked(r, ItemsWithId(row.id) \cup ItemsOfPair(row.cart, row.product))
          /\ cartItems' = out[2]
          /\ Answer(r, req[r], IF out[1] THEN Resp(201, {}, row)
                               ELSE Resp(500, {MsgIntegrityError}, NoRow))
    /\ UNCHANGED <<carts, nextCartId, orderVars, catalogVars>>

\* INSERT of a new CartItem row: the outcome <<ok, the table afterwards>>.
InsertCartItem(row) ==
    IF ForeignKeyViolation(row) \/ UniqueViolation(row)
    THEN <<FALSE, cartItems>>
    ELSE <<TRUE, cartItems \cup {row}>>

\* CartItem.objects.create(cart_id=cart_id, **validated_data); the atomic block commits.
AddItemCreate(r) ==
    /\ req[r].pc = "ai_create"
    /\ FreshCartItemId <= MaxCartItemId
    /\ LET row == [id |-> FreshCartItemId, cart |-> req[r].cart,
                   product |-> req[r].product, quantity |-> req[r].quantity]
           out == InsertCartItem(row)
       IN /\ ~Locked(r, ItemsOfPair(row.cart, row.product))
          /\ cartItems' = out[2]
          /\ Answer(r, req[r], IF out[1] THEN Resp(201, {}, row)
                               ELSE Resp(500, {MsgIntegrityError}, NoRow))
    /\ UNCHANGED <<carts, nextCartId, orderVars, catalogVars>>

(* ------------------- PATCH /carts/{c}/items/{i}/ ---------------------- *)
\* CartItemViewSet.get_queryset and get_object: the item of that id in that cart.
ItemInCartOfAnyCart(c, i) == ItemsWithId(i)
ItemInCart(c, i) == {x \in ItemsOfCart(c) : x.id = i}

\* CartItemViewSet.partial_update: get_object, then validation of the quantity.
UpdateItemRequest(r, c, i, q) ==
    /\ ~InFlight(r)
    /\ LET started == [Idle EXCEPT !.pc = "ui_save", !.kind = "updateItem", !.cart = c,
                                   !.item = i, !.quantity = q]
       IN IF ItemInCart(c, i) = {}
          THEN Answer(r, started, Resp(404, {MsgNotFound}, NoRow))
          ELSE IF q < 1
          THEN Answer(r, started, Resp(400, {MsgQuantity}, NoRow))
          ELSE /\ req' = [req EXCEPT ![r] =
                            [started EXCEPT !.found = CHOOSE x \in ItemInCart(c, i) : TRUE]]
    /\ UNCHANGED <<cartVars, orderVars, catalogVars>>

\* serializer.save(): instance.quantity = quantity; instance.save() (autocommit).
UpdateItemSave(r) ==
    /\ req[r].pc = "ui_save"
    /\ LET row == [req[r].found EXCEPT !.quantity = req[r].quantity]
           out == SaveCartItem(row)
       IN /\ ~Locked(r, ItemsWithId(row.id) \cup ItemsOfPair(row.cart, row.product))
          /\ cartItems' = out[2]
          /\ Answer(r, req[r], IF out[1] THEN Resp(200, {}, row)
                               ELSE Resp(500, {MsgIntegrityError}, NoRow))
    /\ UNCHANGED <<carts, nextCartId, orderVars, catalogVars>>

(* ------------------ DELETE /carts/{c}/items/{i}/ ---------------------- *)
\* CartItemViewSet.destroy: get_object on the cart's items.
RemoveItemRequest(r, c, i) ==
    /\ ~InFlight(r)
    /\ LET started == [Idle EXCEPT !.pc = "ri_delete", !.kind = "removeItem",
                                   !.cart = c, !.item = i]
       IN IF ItemInCart(c, i) = {}
          THEN Answer(r, started, Resp(404, {MsgNotFound}, NoRow))
          ELSE /\ req' = [req EXCEPT ![r] =
                            [started EXCEPT !.found = CHOOSE x \in ItemInCart(c, i) : TRUE]]
    /\ UNCHANGED <<cartVars, orderVars, catalogVars>>

\* instance.delete(): DELETE by primary key (autocommit).
RemoveItemDelete(r) ==
    /\ req[r].pc = "ri_delete"
    /\ ~Locked(r, ItemsWithId(req[r].found.id))
    /\ cartItems' = cartItems \ ItemsWithId(req[r].found.id)
    /\ Answer(r, req[r], Resp(204, {}, NoRow))
    /\ UNCHANGED <<carts, nextCartId, orderVars, catalogVars>>

(* ----------------------- DELETE /carts/{c}/ --------------------------- *)
\* CartViewSet.destroy: get_object.
DeleteCartRequest(r, c) ==
    /\ ~InFlight(r)
    /\ LET started == [Idle EXCEPT !.pc = "dc_items", !.kind = "deleteCart", !.cart = c,
                                   !.cartSeen = TRUE]
       IN IF c \notin carts
          THEN Answer(r, started, Resp(404, {MsgNotFound}, NoRow))
          ELSE req' = [req EXCEPT ![r] = started]
    /\ UNCHANGED <<cartVars, orderVars, catalogVars>>

\* The cascade of a Cart delete: DELETE FROM cartitem WHERE cart_id = c, inside
\* the transaction of the delete.  The rows stay locked until it ends.
CascadeRows(r) == ItemsOfCart(req[r].cart)

\* DELETE FROM cart WHERE id = c at the end of a transaction of r: refused by
\* the store while a CartItem row that r did not delete references the cart.
CartDeleteRefused(r) ==
    req[r].cart \in carts /\ ItemsOfCart(req[r].cart) \ req[r].delItems # {}

DeleteCartItems(r) ==
    /\ req[r].pc = "dc_items"
    /\ ~Locked(r, CascadeRows(r))
    /\ req' = [req EXCEPT ![r].pc = "dc_cart", ![r].delItems = CascadeRows(r)]
    /\ UNCHANGED <<cartVars, orderVars, catalogVars>>

\* The Cart row is deleted and the collector's transaction commits, or the
\* store refuses and the transaction is rolled back.
DeleteCartCommit(r) ==
    /\ req[r].pc = "dc_cart"
    /\ IF CartDeleteRefused(r)
       THEN /\ Answer(r, req[r], Resp(500, {MsgIntegrityError}, NoRow))
            /\ UNCHANGED <<carts, cartItems>>
       ELSE /\ cartItems' = cartItems \ req[r].delItems
            /\ carts' = carts \ {req[r].cart}
            /\ Answer(r, req[r], Resp(204, {}, NoRow))
    /\ UNCHANGED <<nextCartId, orderVars, catalogVars>>

(* --------------------------- POST /orders/ ---------------------------- *)
CustomersOfUser(u) == {cu \in customers : cu.user = u}

\* OrderSerializer(order).data and self.get_serializer(order).data: the
\* serializer names a field the Order model does not have, so building its
\* fields raises ImproperlyConfigured and the request ends as a server error.
OrderResponse(code) == Resp(500, {MsgBadField}, NoRow)

\* The response to a caller for whom Customer.objects.get raises DoesNotExist.
NoCustomerResponseForbidden == Resp(403, {MsgNoCustomer}, NoRow)
NoCustomerResponse == Resp(400, {MsgNoCustomer}, NoRow)

\* transaction.atomic around OrderPostSerializer.create: the Order row that
\* Order.objects.create inserts is not in the committed table before the commit.
OrdersAfterInsertAutocommit(row) == orders \cup {row}
OrdersAfterInsert(row) == orders

\* OrderViewSet.create: permission, is_valid, then OrderPostSerializer.create up
\* to Order.objects.create(customer=customer).
CreateOrderRequest(r, u, c) ==
    /\ ~InFlight(r)
    /\ LET started == [Idle EXCEPT !.pc = "co_read", !.kind = "createOrder",
                                   !.user = u, !.cart = c]
           row == [id |-> FreshOrderId,
                   customer |-> (CHOOSE cu \in CustomersOfUser(u) : TRUE).id,
                   status |-> STATUS_PENDING]
       IN IF ~IsAuthenticated(u)
          THEN /\ Answer(r, started, Resp(403, {MsgNotAuthenticated}, NoRow))
               /\ UNCHANGED orders
          ELSE IF CustomersOfUser(u) = {}
          THEN /\ Answer(r, started, NoCustomerResponse)
               /\ UNCHANGED orders
          ELSE /\ FreshOrderId <= MaxOrderId
               /\ req' = [req EXCEPT ![r] =
                            [started EXCEPT !.customer = row.customer, !.order = row.id,
                                            !.newOrder = {row}]]
               /\ orders' = OrdersAfterInsert(row)
    /\ UNCHANGED <<cartVars, orderItems, convertedFrom, catalogVars>>

\* "if not cart_items": the result of the query is empty.
NoItemsNever(got) == FALSE
NoItems(got) == got = {}

\* cart_items = CartItem.objects...filter(cart_id=cart_id); "if not cart_items"
\* runs the query; an empty result raises ValidationError and the block rolls back.
CreateOrderRead(r) ==
    /\ req[r].pc = "co_read"
    /\ LET got == ItemsOfCart(req[r].cart)
       IN IF NoItems(got)
          THEN Answer(r, req[r], Resp(400, {MsgEmptyCart}, NoRow))
          ELSE /\ req' = [req EXCEPT ![r].pc = "co_bulk", ![r].items = got]
    /\ UNCHANGED <<cartVars, orderVars, catalogVars>>

\* The OrderItem rows of bulk_create: one per CartItem read, product and
\* quantity copied, ids in the order of the CartItem ids.
OrderItemsForUnitQuantity(o, items) ==
    {[id |-> FreshOrderItemId(Cardinality({y \in items : y.id < x.id})),
      order |-> o, product |-> x.product, quantity |-> 1] : x \in items}
OrderItemsFor(o, items) ==
    {[id |-> FreshOrderItemId(Cardinality({y \in items : y.id < x.id})),
      order |-> o, product |-> x.product, quantity |-> x.quantity] : x \in items}

\* OrderItem.objects.bulk_create(...) inside the atomic block.
CreateOrderBulk(r) ==
    /\ req[r].pc = "co_bulk"
    /\ LET rows == OrderItemsFor(req[r].order, req[r].items)
       IN IF \E x \in rows : x.product \notin products
          THEN Answer(r, req[r], Resp(500, {MsgIntegrityError}, NoRow))
          ELSE req' = [req EXCEPT ![r].pc = "co_collect", ![r].newItems = rows]
    /\ UNCHANGED <<cartVars, orderVars, catalogVars>>

\* Cart.objects.filter(pk=cart_id): the Cart row of that id is there.
CollectCartNone(c) == FALSE
CollectCart(c) == c \in carts

\* Cart.objects.filter(pk=cart_id).delete(): the collector first selects the Cart
\* rows; with none there is nothing to delete.
CreateOrderCollect(r) ==
    /\ req[r].pc = "co_collect"
    /\ req' = [req EXCEPT ![r].cartSeen = CollectCart(req[r].cart),
                          ![r].pc = IF CollectCart(req[r].cart) THEN "co_cascade"
                                    ELSE "co_commit"]
    /\ UNCHANGED <<cartVars, orderVars, catalogVars>>

\* ... then deletes the CartItems of the cart ...
CreateOrderCascade(r) ==
    /\ req[r].pc = "co_cascade"
    /\ ~Locked(r, CascadeRows(r))
    /\ req' = [req EXCEPT ![r].pc = "co_commit", ![r].delItems = CascadeRows(r)]
    /\ UNCHANGED <<cartVars, orderVars, catalogVars>>

\* The inventory of the products when the block commits: create() saves no
\* Product, the quantities ordered are not taken from the stock.
InventoryAfterOrderTaken(rows) ==
    [pr \in DOMAIN inventoryOf |->
       IF \E x \in rows : x.product = pr
       THEN inventoryOf[pr] - (CHOOSE x \in rows : x.product = pr).quantity
       ELSE inventoryOf[pr]]
InventoryAfterOrder(rows) == inventoryOf

\* ... then the Cart row; the atomic block commits and OrderViewSet.create
\* renders the response.  A refused delete rolls the whole block back.
CreateOrderCommit(r) ==
    /\ req[r].pc = "co_commit"
    /\ IF req[r].cartSeen /\ CartDeleteRefused(r)
       THEN /\ Answer(r, req[r], Resp(500, {MsgIntegrityError}, NoRow))
            /\ UNCHANGED <<carts, cartItems, orders, orderItems, convertedFrom, inventoryOf>>
       ELSE /\ orders' = orders \cup req[r].newOrder
            /\ orderItems' = orderItems \cup req[r].newItems
            /\ cartItems' = cartItems \ req[r].delItems
            /\ carts' = IF req[r].cartSeen THEN carts \ {req[r].cart} ELSE carts
            /\ convertedFrom' = convertedFrom \cup {<<req[r].order, req[r].cart>>}
            /\ inventoryOf' = InventoryAfterOrder(req[r].newItems)
            /\ Answer(r, req[r], OrderResponse(201))
    /\ UNCHANGED <<nextCartId, customers, products, collections, collectionOf, priceOf,
                   reviews>>

(* --------------------- POST /orders/{o}/cancel/ ----------------------- *)
\* OrderViewSet.get_queryset: every Order for staff, the caller's own otherwise.
OrdersVisibleTo(u) ==
    IF IsStaff(u) THEN orders
    ELSE {x \in orders : \E cu \in CustomersOfUser(u) : cu.id = x.customer}

\* The guard of OrderViewSet.cancel and of Order.cancel.
CanCancelAny(status) == TRUE
CanCancel(status) == status = STATUS_PENDING

\* OrderViewSet.cancel: permission, get_object, the status guard.
CancelRequest(r, u, o) ==
    /\ ~InFlight(r)
    /\ LET started == [Idle EXCEPT !.pc = "ca_save", !.kind = "cancel", !.user = u,
                                   !.order = o]
           hit == {x \in OrdersVisibleTo(u) : x.id = o}
       IN IF ~IsAuthenticated(u)
          THEN Answer(r, started, Resp(403, {MsgNotAuthenticated}, NoRow))
          ELSE IF hit = {}
          THEN Answer(r, started, Resp(404, {MsgNotFound}, NoRow))
          ELSE IF ~CanCancel((CHOOSE x \in hit : TRUE).status)
          THEN Answer(r, started, Resp(400, {MsgNotPending}, NoRow))
          ELSE req' = [req EXCEPT ![r] = started]
    /\ UNCHANGED <<cartVars, orderVars, catalogVars>>

\* order.cancel(): status = Cancelled, save(update_fields=['status']); then the
\* response is rendered.
CancelSave(r) ==
    /\ req[r].pc = "ca_save"
    /\ orders' = {IF x.id = req[r].order THEN [x EXCEPT !.status = STATUS_CANCELLED]
                  ELSE x : x \in orders}
    /\ Answer(r, req[r], OrderResponse(200))
    /\ UNCHANGED <<cartVars, orderItems, convertedFrom, catalogVars>>

(* ----------------- GET /orders/ and GET /orders/{o}/ ------------------ *)
\* OrderViewSet.list: the caller's queryset rendered by OrderSerializer(many=True).
\* The fields of the serializer are built when the first row is rendered, so an
\* empty list is returned as it is and any other ends as a server error.
ListOrders(r, u) ==
    /\ ~InFlight(r)
    /\ LET started == [Idle EXCEPT !.kind = "listOrders", !.user = u]
       IN IF ~IsAuthenticated(u)
          THEN Answer(r, started, Resp(403, {MsgNotAuthenticated}, NoRow))
          ELSE IF OrdersVisibleTo(u) = {}
          THEN Answer(r, started, ListResp(200, {}, {}))
          ELSE Answer(r, started, OrderResponse(200))
    /\ UNCHANGED <<cartVars, orderVars, catalogVars>>

\* OrderViewSet.retrieve: get_object on the caller's queryset, then the rendering.
RetrieveOrder(r, u, o) ==
    /\ ~InFlight(r)
    /\ LET started == [Idle EXCEPT !.kind = "retrieveOrder", !.user = u, !.order = o]
       IN IF ~IsAuthenticated(u)
          THEN Answer(r, started, Resp(403, {MsgNotAuthenticated}, NoRow))
          ELSE IF {x \in OrdersVisibleTo(u) : x.id = o} = {}
          THEN Answer(r, started, Resp(404, {MsgNotFound}, NoRow))
          ELSE Answer(r, started, OrderResponse(200))
    /\ UNCHANGED <<cartVars, orderVars, catalogVars>>

(* ------------------------ DELETE /orders/{o}/ ------------------------- *)
\* http_method_names of OrderViewSet leaves 'delete' out: after the permission
\* check the request is answered 405 by http_method_not_allowed.
OrderMethodsWithDelete == {"get", "post", "patch", "delete", "head", "options"}
OrderMethods == {"get", "post", "patch", "head", "options"}

DeleteOrder(r, u, o) ==
    /\ ~InFlight(r)
    /\ LET started == [Idle EXCEPT !.kind = "deleteOrder", !.user = u, !.order = o]
           hit == {x \in OrdersVisibleTo(u) : x.id = o}
       IN IF ~IsAuthenticated(u)
          THEN /\ Answer(r, started, Resp(403, {MsgNotAuthenticated}, NoRow))
               /\ UNCHANGED orders
          ELSE IF "delete" \notin OrderMethods
          THEN /\ Answer(r, started, Resp(405, {MsgNotAllowed}, NoRow))
               /\ UNCHANGED orders
          ELSE IF hit = {}
          THEN /\ Answer(r, started, Resp(404, {MsgNotFound}, NoRow))
               /\ UNCHANGED orders
          ELSE IF \E x \in orderItems : x.order = o
          THEN /\ Answer(r, started, Resp(500, {MsgIntegrityError}, NoRow))
               /\ UNCHANGED orders
          ELSE /\ orders' = orders \ hit
               /\ Answer(r, started, Resp(204, {}, NoRow))
    /\ UNCHANGED <<cartVars, orderItems, convertedFrom, catalogVars>>

(* ------------------------ PATCH /orders/{o}/ -------------------------- *)
\* The fields of the Order model and the fields OrderPatchSerializer names.
OrderFields == {"id", "customer", "status", "placed_at"}
OrderPatchFields == {"payment_status"}

\* OrderViewSet.get_permissions for partial_update: IsAdminUser.
MayPatchOrderAnyUser(u) == IsAuthenticated(u)
MayPatchOrder(u) == IsStaff(u)

\* The status codes a caller may send: the seven choices and one that is none.
StatusInputs == STATUS_CHOICES \cup {"Z"}

\* OrderViewSet.partial_update: permission, get_object, then is_valid of
\* OrderPatchSerializer, which builds the serializer's fields first: a name that
\* is no field of Order raises ImproperlyConfigured before the payload is looked
\* at.  Only past that would the choice be validated and the status saved.
SetStatusRequest(r, u, o, s) ==
    /\ ~InFlight(r)
    /\ LET started == [Idle EXCEPT !.kind = "setStatus", !.user = u, !.order = o,
                                   !.status = s]
           hit == {x \in OrdersVisibleTo(u) : x.id = o}
       IN IF ~MayPatchOrder(u)
          THEN /\ Answer(r, started,
                         Resp(403, {IF IsAuthenticated(u) THEN MsgForbidden
                                    ELSE MsgNotAuthenticated}, NoRow))
               /\ UNCHANGED orders
          ELSE IF hit = {}
          THEN /\ Answer(r, started, Resp(404, {MsgNotFound}, NoRow))
               /\ UNCHANGED orders
          ELSE IF ~(OrderPatchFields \subseteq OrderFields)
          THEN /\ Answer(r, started, Resp(500, {MsgBadField}, NoRow))
               /\ UNCHANGED orders
          ELSE IF s \notin STATUS_CHOICES
          THEN /\ Answer(r, started, Resp(400, {MsgBadChoice}, NoRow))
               /\ UNCHANGED orders
          ELSE /\ orders' = {IF x.id = o THEN [x EXCEPT !.status = s] ELSE x : x \in orders}
               /\ Answer(r, started, Resp(200, {}, NoRow))
    /\ UNCHANGED <<cartVars, orderItems, convertedFrom, catalogVars>>

(* --------------------- /admin/store/order/{o}/change/ ------------------ *)
\* The change form of OrderAdmin, open to staff on the admin site: the status
\* field offers every choice and the form saves the one picked.
AdminChangeOrder(o, s) ==
    /\ \E x \in orders : x.id = o /\ x.status # s
    /\ orders' = {IF x.id = o THEN [x EXCEPT !.status = s] ELSE x : x \in orders}
    /\ UNCHANGED <<cartVars, orderItems, convertedFrom, catalogVars, req>>

(* ---------------- /orders/{o}/order-items/ (nested) ------------------- *)
\* OrderItemViewSet.get_queryset: the OrderItems of the order in the URL, whoever
\* the caller is.
OrderItemsOfPair(o, p) == {x \in orderItems : x.order = o /\ x.product = p}
OrderItemInOrder(o, i) == {x \in orderItems : x.order = o /\ x.id = i}

MsgMultiple == "MultipleObjectsReturned"

\* The quantity OrderItemPostSerializer.save writes over an item it found.
MergedOrderQuantityOverwrite(old, q) == q
MergedOrderQuantity(old, q) == old + q

\* POST: permission IsAuthenticated, validation of product_id and quantity, then
\* OrderItemPostSerializer.save in one atomic block: get(order_id, product_id),
\* then quantity += quantity and save(), or create(order_id=..., ...).
AddOrderItem(r, u, o, p, q) ==
    /\ ~InFlight(r)
    /\ LET started == [Idle EXCEPT !.kind = "addOrderItem", !.user = u, !.order = o,
                                   !.product = p, !.quantity = q]
           hit == OrderItemsOfPair(o, p)
       IN IF ~IsAuthenticated(u)
          THEN /\ Answer(r, started, Resp(403, {MsgNotAuthenticated}, NoRow))
               /\ UNCHANGED orderItems
          ELSE IF AddItemErrors(p, q) # {}
          THEN /\ Answer(r, started, Resp(400, AddItemErrors(p, q), NoRow))
               /\ UNCHANGED orderItems
          ELSE IF Cardinality(hit) > 1
          THEN /\ Answer(r, started, Resp(500, {MsgMultiple}, NoRow))
               /\ UNCHANGED orderItems
          ELSE IF hit # {}
          THEN LET old == CHOOSE x \in hit : TRUE
                   row == [old EXCEPT !.quantity = MergedOrderQuantity(old.quantity, q)]
               IN /\ row.quantity <= MaxQuantity
                  /\ orderItems' = (orderItems \ hit) \cup {row}
                  /\ Answer(r, started, Resp(201, {}, row))
          ELSE IF o \notin IdsOf(orders)
          THEN /\ Answer(r, started, Resp(500, {MsgIntegrityError}, NoRow))
               /\ UNCHANGED orderItems
          ELSE LET row == [id |-> FreshOrderItemId(0), order |-> o, product |-> p,
                           quantity |-> q]
               IN /\ orderItems' = orderItems \cup {row}
                  /\ Answer(r, started, Resp(201, {}, row))
    /\ UNCHANGED <<cartVars, orders, convertedFrom, catalogVars>>

\* PATCH: get_object on the order's items, validation of the quantity by
\* OrderItemPatchSerializer, then instance.quantity = quantity; instance.save().
UpdateOrderItem(r, u, o, i, q) ==
    /\ ~InFlight(r)
    /\ LET started == [Idle EXCEPT !.kind = "updateOrderItem", !.user = u, !.order = o,
                                   !.item = i, !.quantity = q]
           hit == OrderItemInOrder(o, i)
       IN IF ~IsAuthenticated(u)
          THEN /\ Answer(r, started, Resp(403, {MsgNotAuthenticated}, NoRow))
               /\ UNCHANGED orderItems
          ELSE IF hit = {}
          THEN /\ Answer(r, started, Resp(404, {MsgNotFound}, NoRow))
               /\ UNCHANGED orderItems
          ELSE IF q < 1
          THEN /\ Answer(r, started, Resp(400, {MsgQuantity}, NoRow))
               /\ UNCHANGED orderItems
          ELSE LET row == [(CHOOSE x \in hit : TRUE) EXCEPT !.quantity = q]
               IN /\ orderItems' = (orderItems \ hit) \cup {row}
                  /\ Answer(r, started, Resp(200, {}, row))
    /\ UNCHANGED <<cartVars, orders, convertedFrom, catalogVars>>

\* DELETE: get_object on the order's items, then instance.delete().
RemoveOrderItem(r, u, o, i) ==
    /\ ~InFlight(r)
    /\ LET started == [Idle EXCEPT !.kind = "removeOrderItem", !.user = u, !.order = o,
                                   !.item = i]
           hit == OrderItemInOrder(o, i)
       IN IF ~IsAuthenticated(u)
          THEN /\ Answer(r, started, Resp(403, {MsgNotAuthenticated}, NoRow))
               /\ UNCHANGED orderItems
          ELSE IF hit = {}
          THEN /\ Answer(r, started, Resp(404, {MsgNotFound}, NoRow))
               /\ UNCHANGED orderItems
          ELSE /\ orderItems' = orderItems \ hit
               /\ Answer(r, started, Resp(204, {}, NoRow))
    /\ UNCHANGED <<cartVars, orders, convertedFrom, catalogVars>>

(* ------------------------ /collections/ ------------------------------- *)
CollectionIds == {1, 2, 3}

MsgHasProducts == "Collection cannot be deleted because it includes one or more products."
MsgProtected == "ProtectedError"
MsgBadPk == "Invalid pk - object does not exist."

\* IsAdminOrReadyOnly for a method that is not safe.
MayWriteCatalog(u) == IsStaff(u)
CatalogRefusal(u) ==
    Resp(403, {IF IsAuthenticated(u) THEN MsgForbidden ELSE MsgNotAuthenticated}, NoRow)

ProductsOf(c) == {pr \in products : collectionOf[pr] = c}
CollectionWithId(c) == {x \in collections : x.id = c}

\* Product.objects.filter(collection_id=pk).exists() in CollectionViewSet.destroy.
HasProductsNever(c) == FALSE
HasProducts(c) == ProductsOf(c) # {}

\* POST /collections/: CollectionSerializer writes the title only.
CreateCollection(r, u) ==
    /\ ~InFlight(r)
    /\ LET free == CollectionIds \ IdsOf(collections)
           started == [Idle EXCEPT !.kind = "createCollection", !.user = u]
       IN IF ~MayWriteCatalog(u)
          THEN /\ Answer(r, started, CatalogRefusal(u))
               /\ UNCHANGED collections
          ELSE /\ free # {}
               /\ collections' = collections \cup {[id |-> Least(free), featured |-> 0]}
               /\ Answer(r, [started EXCEPT !.collection = Least(free)], Resp(201, {}, NoRow))
    /\ UNCHANGED <<cartVars, orderVars, customers, reviews, products, collectionOf, priceVars>>

\* CollectionViewSet.destroy: the permission, the check for products, then
\* get_object of super().destroy.
DeleteCollectionRequest(r, u, c) ==
    /\ ~InFlight(r)
    /\ LET started == [Idle EXCEPT !.pc = "dcol_delete", !.kind = "deleteCollection",
                                   !.user = u, !.collection = c]
       IN IF ~MayWriteCatalog(u)
          THEN Answer(r, started, CatalogRefusal(u))
          ELSE IF HasProducts(c)
          THEN Answer(r, started, Resp(405, {MsgHasProducts}, NoRow))
          ELSE IF CollectionWithId(c) = {}
          THEN Answer(r, started, Resp(404, {MsgNotFound}, NoRow))
          ELSE req' = [req EXCEPT ![r] = started]
    /\ UNCHANGED <<cartVars, orderVars, catalogVars>>

\* instance.delete(): the collector finds the Products that PROTECT the row and
\* raises ProtectedError, which no handler catches; else the row is deleted.
DeleteCollectionDelete(r) ==
    /\ req[r].pc = "dcol_delete"
    /\ IF ProductsOf(req[r].collection) # {}
       THEN /\ Answer(r, req[r], Resp(500, {MsgProtected}, NoRow))
            /\ UNCHANGED collections
       ELSE /\ collections' = collections \ CollectionWithId(req[r].collection)
            /\ Answer(r, req[r], Resp(204, {}, NoRow))
    /\ UNCHANGED <<cartVars, orderVars, customers, reviews, products, collectionOf, priceVars>>

\* Collection.save() with a featured product picked on the change form of
\* CollectionAdmin (0: none): full_clean runs clean, which refuses a product of
\* another collection; a refused save writes nothing.
CleanCollection(c, f) == f = 0 \/ (f \in products /\ collectionOf[f] = c)

SaveCollection(c, f) ==
    /\ \E x \in collections : x.id = c /\ x.featured # f
    /\ f = 0 \/ f \in products
    /\ CleanCollection(c, f)
    /\ collections' = {IF x.id = c THEN [x EXCEPT !.featured = f] ELSE x : x \in collections}
    /\ UNCHANGED <<cartVars, orderVars, customers, reviews, products, collectionOf, priceVars, req>>

(* -------------------------- /products/ -------------------------------- *)
MsgRequired == "This field is required."
MsgPrice == "Ensure this value is greater than or equal to 1."
MsgInventory == "Ensure this value is greater than or equal to 0."

\* MinValueValidator(1) of Product.price and MinValueValidator(0) of
\* Product.inventory, which ProductSerializer takes over from the model.
PriceTooLowNever(v) == FALSE
PriceTooLow(v) == v < 1
InventoryTooLow(v) == v < 0

\* ProductSerializer.is_valid on a payload: cf is the collection sent (0: none),
\* pf and nf hold the price and the inventory sent, if any.  Without partial
\* every field is required.
ProductErrors(partial, cf, pf, nf) ==
    (IF ~partial /\ (cf = 0 \/ pf = {} \/ nf = {}) THEN {MsgRequired} ELSE {})
    \cup (IF \E v \in pf : PriceTooLow(v) THEN {MsgPrice} ELSE {})
    \cup (IF \E v \in nf : InventoryTooLow(v) THEN {MsgInventory} ELSE {})
    \cup (IF cf # 0 /\ CollectionWithId(cf) = {} THEN {MsgBadPk} ELSE {})

\* The value a field of the row takes from a payload that may leave it out.
Sent(field, old) == IF field = {} THEN old ELSE CHOOSE v \in field : TRUE

\* POST /products/: the permission, is_valid, then Product.objects.create.
CreateProductWith(r, u, cf, pf, nf) ==
    /\ ~InFlight(r)
    /\ LET free == ProductIds \ products
           started == [Idle EXCEPT !.kind = "createProduct", !.user = u,
                                   !.collection = cf, !.price = pf, !.inventory = nf]
       IN IF ~MayWriteCatalog(u)
          THEN /\ Answer(r, started, CatalogRefusal(u))
               /\ UNCHANGED <<products, collectionOf, priceVars>>
          ELSE IF ProductErrors(FALSE, cf, pf, nf) # {}
          THEN /\ Answer(r, started, Resp(400, ProductErrors(FALSE, cf, pf, nf), NoRow))
               /\ UNCHANGED <<products, collectionOf, priceVars>>
          ELSE /\ free # {}
               /\ products' = products \cup {Least(free)}
               /\ collectionOf' = [pr \in products' |->
                                     IF pr = Least(free) THEN cf ELSE collectionOf[pr]]
               /\ priceOf' = [pr \in products' |->
                                IF pr = Least(free) THEN Sent(pf, 0) ELSE priceOf[pr]]
               /\ inventoryOf' = [pr \in products' |->
                                    IF pr = Least(free) THEN Sent(nf, 0) ELSE inventoryOf[pr]]
               /\ Answer(r, [started EXCEPT !.product = Least(free)], Resp(201, {}, NoRow))
    /\ UNCHANGED <<cartVars, orderVars, customers, reviews, collections>>

\* POST /products/ with a price and an inventory that are valid.
CreateProduct(r, u, c) == CreateProductWith(r, u, c, {1}, {1})

\* PUT and PATCH /products/{p}/: the permission, get_object, is_valid (partial
\* for PATCH), then the fields sent are set on the instance and saved.
UpdateProduct(r, u, pr, partial, cf, pf, nf) ==
    /\ ~InFlight(r)
    /\ LET started == [Idle EXCEPT !.kind = IF partial THEN "patchProduct" ELSE "putProduct",
                                   !.user = u, !.product = pr, !.collection = cf,
                                   !.price = pf, !.inventory = nf]
       IN IF ~MayWriteCatalog(u)
          THEN /\ Answer(r, started, CatalogRefusal(u))
               /\ UNCHANGED <<collectionOf, priceVars>>
          ELSE IF pr \notin products
          THEN /\ Answer(r, started, Resp(404, {MsgNotFound}, NoRow))
               /\ UNCHANGED <<collectionOf, priceVars>>
          ELSE IF ProductErrors(partial, cf, pf, nf) # {}
          THEN /\ Answer(r, started, Resp(400, ProductErrors(partial, cf, pf, nf), NoRow))
               /\ UNCHANGED <<collectionOf, priceVars>>
          ELSE /\ collectionOf' = [collectionOf EXCEPT
                                     ![pr] = IF cf = 0 THEN collectionOf[pr] ELSE cf]
               /\ priceOf' = [priceOf EXCEPT ![pr] = Sent(pf, priceOf[pr])]
               /\ inventoryOf' = [inventoryOf EXCEPT ![pr] = Sent(nf, inventoryOf[pr])]
               /\ Answer(r, started, Resp(200, {}, NoRow))
    /\ UNCHANGED <<cartVars, orderVars, customers, reviews, products, collections>>

\* PATCH /products/{p}/ with a collection alone.
MoveProduct(r, u, pr, c) == UpdateProduct(r, u, pr, TRUE, c, {}, {})

\* The OrderItems whose product is pr: OrderItem.product is PROTECT.
OrderItemsOfProduct(pr) == {x \in orderItems : x.product = pr}

\* DELETE /products/{p}/: ProductViewSet has no destroy of its own.  get_object,
\* then instance.delete(): the collector raises ProtectedError for a product that
\* OrderItems reference, and no handler catches it; else the CartItems of the
\* product and its Reviews go with it (CASCADE) and the collections featuring it
\* lose it (SET_NULL).
DeleteProduct(r, u, pr) ==
    /\ ~InFlight(r)
    /\ LET started == [Idle EXCEPT !.kind = "deleteProduct", !.user = u, !.product = pr]
           gone == {x \in cartItems : x.product = pr}
       IN IF ~MayWriteCatalog(u)
          THEN /\ Answer(r, started, CatalogRefusal(u))
               /\ UNCHANGED <<cartItems, products, collections, collectionOf, priceVars, reviews>>
          ELSE IF pr \notin products
          THEN /\ Answer(r, started, Resp(404, {MsgNotFound}, NoRow))
               /\ UNCHANGED <<cartItems, products, collections, collectionOf, priceVars, reviews>>
          ELSE IF OrderItemsOfProduct(pr) # {}
          THEN /\ Answer(r, started, Resp(500, {MsgProtected}, NoRow))
               /\ UNCHANGED <<cartItems, products, collections, collectionOf, priceVars, reviews>>
          ELSE /\ ~Locked(r, gone)
               /\ cartItems' = cartItems \ gone
               /\ products' = products \ {pr}
               /\ collectionOf' = [x \in products' |-> collectionOf[x]]
               /\ priceOf' = [x \in products' |-> priceOf[x]]
               /\ inventoryOf' = [x \in products' |-> inventoryOf[x]]
               /\ reviews' = {x \in reviews : x.product # pr}
               /\ collections' = {IF x.featured = pr THEN [x EXCEPT !.featured = 0] ELSE x :
                                    x \in collections}
               /\ Answer(r, started, Resp(204, {}, NoRow))
    /\ UNCHANGED <<carts, nextCartId, orderVars, customers>>

(* ------------------- computed prices of the reads --------------------- *)
\* get_total_price of CartItemSerializer and of OrderItemSerializer: the quantity
\* of the row times the price the Product has when the row is rendered.
LineTotal(x) == x.quantity * priceOf[x.product]

\* get_total_price of CartSerializer: sum([...]) over the items, 0 for none.
RECURSIVE SumOfLines(_)
SumOfLines(rows) ==
    IF rows = {} THEN 0
    ELSE LET x == CHOOSE y \in rows : TRUE
         IN LineTotal(x) + SumOfLines(rows \ {x})

LineTotals(rows) == {<<x.id, LineTotal(x)>> : x \in rows}

\* GET /carts/{c}/: CartViewSet.retrieve, open to every caller; CartSerializer
\* renders the items and the total.
RetrieveCart(r, c) ==
    /\ ~InFlight(r)
    /\ LET started == [Idle EXCEPT !.kind = "retrieveCart", !.cart = c]
       IN IF c \notin carts
          THEN Answer(r, started, Resp(404, {MsgNotFound}, NoRow))
          ELSE Answer(r, started,
                      TotalsResp(200, IdsOf(ItemsOfCart(c)),
                                 LineTotals(ItemsOfCart(c)) \cup
                                 {<<0, SumOfLines(ItemsOfCart(c))>>}))
    /\ UNCHANGED <<cartVars, orderVars, catalogVars>>

\* GET /orders/{o}/order-items/: OrderItemViewSet.list, IsAuthenticated; the
\* queryset is the items of the order in the URL, rendered by OrderItemSerializer.
ListOrderItems(r, u, o) ==
    /\ ~InFlight(r)
    /\ LET started == [Idle EXCEPT !.kind = "listOrderItems", !.user = u, !.order = o]
           rows == {x \in orderItems : x.order = o}
       IN IF ~IsAuthenticated(u)
          THEN Answer(r, started, Resp(403, {MsgNotAuthenticated}, NoRow))
          ELSE Answer(r, started, TotalsResp(200, IdsOf(rows), LineTotals(rows)))
    /\ UNCHANGED <<cartVars, orderVars, catalogVars>>

(* ------------------ /products/{p}/reviews/ (nested) ------------------- *)
ReviewIds == {1, 2}
Descriptions == {"", "D", "E"}

MsgBlank == "This field may not be blank."

\* IsAuthenticatedOrReadOnly for a method that is not safe.
MayWriteReviewAnyone(u) == TRUE
MayWriteReview(u) == IsAuthenticated(u)

\* ReviewViewSet.get_queryset and get_object: the review of that id of the
\* product in the URL.
ReviewOfProduct(pr, i) == {x \in reviews : x.product = pr /\ x.id = i}

\* POST: the permission, is_valid (description), then ReviewSerializer.create:
\* Review.objects.create(product_id=..., name=user.username, ...).
CreateReview(r, u, pr, text) ==
    /\ ~InFlight(r)
    /\ LET started == [Idle EXCEPT !.kind = "createReview", !.user = u, !.product = pr,
                                   !.description = text]
           free == ReviewIds \ IdsOf(reviews)
       IN IF ~MayWriteReview(u)
          THEN /\ Answer(r, started, Resp(403, {MsgNotAuthenticated}, NoRow))
               /\ UNCHANGED reviews
          ELSE IF text = ""
          THEN /\ Answer(r, started, Resp(400, {MsgBlank}, NoRow))
               /\ UNCHANGED reviews
          ELSE IF pr \notin products
          THEN /\ Answer(r, started, Resp(500, {MsgIntegrityError}, NoRow))
               /\ UNCHANGED reviews
          ELSE /\ free # {}
               /\ reviews' = reviews \cup {[id |-> Least(free), product |-> pr, name |-> u,
                                            description |-> text]}
               /\ Answer(r, [started EXCEPT !.item = Least(free)], Resp(201, {}, NoRow))
    /\ UNCHANGED <<cartVars, orderVars, customers, products, collections, collectionOf,
                   priceVars>>

\* PUT and PATCH: the permission, get_object, is_valid, then the description is
\* set on the instance and saved; name is read only.
UpdateReview(r, u, pr, i, text) ==
    /\ ~InFlight(r)
    /\ LET started == [Idle EXCEPT !.kind = "updateReview", !.user = u, !.product = pr,
                                   !.item = i, !.description = text]
           hit == ReviewOfProduct(pr, i)
       IN IF ~MayWriteReview(u)
          THEN /\ Answer(r, started, Resp(403, {MsgNotAuthenticated}, NoRow))
               /\ UNCHANGED reviews
          ELSE IF hit = {}
          THEN /\ Answer(r, started, Resp(404, {MsgNotFound}, NoRow))
               /\ UNCHANGED reviews
          ELSE IF text = ""
          THEN /\ Answer(r, started, Resp(400, {MsgBlank}, NoRow))
               /\ UNCHANGED reviews
          ELSE /\ reviews' = (reviews \ hit) \cup {[x EXCEPT !.description = text] : x \in hit}
               /\ Answer(r, started, Resp(200, {}, NoRow))
    /\ UNCHANGED <<cartVars, orderVars, customers, products, collections, collectionOf,
                   priceVars>>

\* DELETE: the permission, get_object, then instance.delete().
DeleteReview(r, u, pr, i) ==
    /\ ~InFlight(r)
    /\ LET started == [Idle EXCEPT !.kind = "deleteReview", !.user = u, !.product = pr,
                                   !.item = i]
           hit == ReviewOfProduct(pr, i)
       IN IF ~MayWriteReview(u)
          THEN /\ Answer(r, started, Resp(403, {MsgNotAuthenticated}, NoRow))
               /\ UNCHANGED reviews
          ELSE IF hit = {}
          THEN /\ Answer(r, started, Resp(404, {MsgNotFound}, NoRow))
               /\ UNCHANGED reviews
          ELSE /\ reviews' = reviews \ hit
               /\ Answer(r, started, Resp(204, {}, NoRow))
    /\ UNCHANGED <<cartVars, orderVars, customers, products, collections, collectionOf,
                   priceVars>>

(* ---------------------- DELETE /customers/{id}/ ----------------------- *)
CustomerIds == {1, 2, 3}

\* CustomerViewSet.get_queryset: every Customer for staff, the caller's own
\* otherwise.
CustomersVisibleTo(u) == IF IsStaff(u) THEN customers ELSE CustomersOfUser(u)

\* The Orders whose customer is cu: Order.customer is PROTECT.
OrdersOfCustomerNone(cu) == {}
OrdersOfCustomer(cu) == {x \in orders : x.customer = cu}

\* CustomerViewSet.destroy: IsAuthenticated, get_object on the caller's
\* queryset, then instance.delete(): the collector raises ProtectedError for a
\* customer that Orders reference, and no handler catches it.  The id named in
\* the URL is kept in the item field of the request.
DeleteCustomer(r, u, cu) ==
    /\ ~InFlight(r)
    /\ LET started == [Idle EXCEPT !.kind = "deleteCustomer", !.user = u, !.item = cu]
           hit == {x \in CustomersVisibleTo(u) : x.id = cu}
       IN IF ~IsAuthenticated(u)
          THEN /\ Answer(r, started, Resp(403, {MsgNotAuthenticated}, NoRow))
               /\ UNCHANGED customers
          ELSE IF hit = {}
          THEN /\ Answer(r, started, Resp(404, {MsgNotFound}, NoRow))
               /\ UNCHANGED customers
          ELSE IF OrdersOfCustomer(cu) # {}
          THEN /\ Answer(r, started, Resp(500, {MsgProtected}, NoRow))
               /\ UNCHANGED customers
          ELSE /\ customers' = customers \ hit
               /\ Answer(r, started, Resp(204, {}, NoRow))
    /\ UNCHANGED <<cartVars, orderVars, products, collections, collectionOf, priceVars,
                   reviews>>

(* ------------------------------ replies ------------------------------ *)
\* The response of r is sent and its handler is free for the next request.
Reply(r) ==
    /\ req[r].pc = "done"
    /\ req' = [req EXCEPT ![r] = Idle]
    /\ UNCHANGED <<cartVars, orderVars, catalogVars>>

(* --------------------------- specifications --------------------------- *)
OrderIds == 1..MaxOrderId
CartItemIds == 1..MaxCartItemId

\* The next statement of handler r; a new request takes its arguments from In.
Step(r, In) ==
    \/ CreateCart(r)
    \/ \E c \in In.carts, p \in In.products, q \in In.quantities : AddItemRequest(r, c, p, q)
    \/ AddItemGet(r)
    \/ AddItemSave(r)
    \/ AddItemCreate(r)
    \/ \E c \in In.carts, i \in In.items, q \in In.quantities : UpdateItemRequest(r, c, i, q)
    \/ UpdateItemSave(r)
    \/ \E c \in In.carts, i \in In.items : RemoveItemRequest(r, c, i)
    \/ RemoveItemDelete(r)
    \/ \E c \in In.carts : DeleteCartRequest(r, c)
    \/ DeleteCartItems(r)
    \/ DeleteCartCommit(r)
    \/ \E u \in In.callers, c \in In.carts : CreateOrderRequest(r, u, c)
    \/ CreateOrderRead(r)
    \/ CreateOrderBulk(r)
    \/ CreateOrderCollect(r)
    \/ CreateOrderCascade(r)
    \/ CreateOrderCommit(r)
    \/ \E u \in In.callers, o \in In.orders : CancelRequest(r, u, o)
    \/ CancelSave(r)
    \/ \E u \in In.callers, o \in In.orders, st \in In.statuses : SetStatusRequest(r, u, o, st)
    \/ \E u \in In.callers : ListOrders(r, u)
    \/ \E u \in In.callers, o \in In.orders : RetrieveOrder(r, u, o)
    \/ \E u \in In.callers, o \in In.orders : DeleteOrder(r, u, o)
    \/ Reply(r)

\* Every payload, valid or not, by every kind of caller.
AnyRequest ==
    [carts |-> CartIds, products |-> ProductIds, quantities |-> Quantities,
     items |-> CartItemIds, callers |-> Callers, orders |-> OrderIds,
     statuses |-> StatusInputs]

\* The payloads of racing requests: valid ones, by one customer.
RacingRequest ==
    [carts |-> CartIds, products |-> {1}, quantities |-> {1},
     items |-> CartItemIds, callers |-> {"alice"}, orders |-> OrderIds,
     statuses |-> {STATUS_SHIPPED}]

\* Two handlers; requests arrive at any time and their statements interleave.
Next == \E r \in Reqs : Step(r, RacingRequest)

Spec == Init /\ [][Next]_vars

\* One handler: requests are served one at a time.
NextSeq == Step("r1", AnyRequest)

SpecSeq == InitAnyStatus /\ [][NextSeq]_vars

\* One handler serving the owner's requests to the store and any caller's
\* requests to the nested order-items resource of the orders.
OrderItemIds == {1, 2, 3}

OwnerRequest ==
    [carts |-> CartIds, products |-> {1, 2}, quantities |-> {1},
     items |-> CartItemIds, callers |-> {"alice"}, orders |-> {1},
     statuses |-> {STATUS_SHIPPED}]

NextOrderItems ==
    \/ Step("r1", OwnerRequest)
    \/ \E u \in {"bob", Anon}, o \in {1, 2}, pr \in ProductIds, q \in Quantities :
          AddOrderItem("r1", u, o, pr, q)
    \/ \E u \in {"bob", Anon}, o \in {1, 2}, i \in OrderItemIds, q \in Quantities :
          UpdateOrderItem("r1", u, o, i, q)
    \/ \E u \in {"bob", Anon}, o \in {1, 2}, i \in OrderItemIds :
          RemoveOrderItem("r1", u, o, i)
    \/ \E u \in {"bob", Anon} : ListOrderItems("r1", u, 1)

SpecOrderItems == Init /\ [][NextOrderItems]_vars

\* One handler serving the writes to collections and products, a second one
\* serving staff's deletions of collections, and staff at the change form of a
\* collection on the admin site.
CatalogCallers == {"staff", "alice", Anon}

NextCatalog ==
    \/ \E u \in CatalogCallers : CreateCollection("r1", u)
    \/ \E u \in CatalogCallers, c \in CollectionIds : DeleteCollectionRequest("r1", u, c)
    \/ \E c \in {1, 2} : DeleteCollectionRequest("r2", "staff", c)
    \/ \E r \in Reqs : DeleteCollectionDelete(r)
    \/ \E u \in CatalogCallers, c \in CollectionIds : CreateProduct("r1", u, c)
    \/ \E u \in CatalogCallers, pr \in ProductIds, c \in CollectionIds :
          MoveProduct("r1", u, pr, c)
    \/ \E u \in CatalogCallers, pr \in ProductIds : DeleteProduct("r1", u, pr)
    \/ \E r \in Reqs : Reply(r)
    \/ \E c \in CollectionIds, f \in ProductIds \cup {0} : SaveCollection(c, f)

SpecCatalog == Init /\ [][NextCatalog]_vars

\* One handler serving the writes to products, with every kind of payload.
CollectionFields == {0, 1, 3}
PriceFields == {{}, {0}, {1}, {2}}
InventoryFields == {{}, {-1}, {0}, {1}}

NextProducts ==
    \/ \E u \in CatalogCallers, cf \in CollectionFields, pf \in PriceFields,
          nf \in InventoryFields : CreateProductWith("r1", u, cf, pf, nf)
    \/ \E u \in CatalogCallers, pr \in ProductIds, partial \in BOOLEAN,
          cf \in CollectionFields, pf \in PriceFields, nf \in InventoryFields :
          UpdateProduct("r1", u, pr, partial, cf, pf, nf)
    \/ \E u \in CatalogCallers, pr \in ProductIds : DeleteProduct("r1", u, pr)
    \/ Reply("r1")

SpecProducts == Init /\ [][NextProducts]_vars

\* One handler serving the requests to two carts and their items; the cart and
\* item ids named run over those of both carts and one that is none.
TwoCartIds == {1, 2}
NamedItemIds == {1, 2, 3}

NextCartItems ==
    \/ \E c \in TwoCartIds, pr \in {1, 2}, q \in {1} : AddItemRequest("r1", c, pr, q)
    \/ AddItemGet("r1")
    \/ AddItemSave("r1")
    \/ AddItemCreate("r1")
    \/ \E c \in TwoCartIds, i \in NamedItemIds, q \in {1, 2} : UpdateItemRequest("r1", c, i, q)
    \/ UpdateItemSave("r1")
    \/ \E c \in TwoCartIds, i \in NamedItemIds : RemoveItemRequest("r1", c, i)
    \/ RemoveItemDelete("r1")
    \/ \E c \in TwoCartIds : DeleteCartRequest("r1", c)
    \/ DeleteCartItems("r1")
    \/ DeleteCartCommit("r1")
    \/ Reply("r1")

SpecCartItems == InitTwoCarts /\ [][NextCartItems]_vars

\* One handler serving the owner's cart edits and conversions, the reads that
\* show computed prices, and staff's changes of a product's price.
NextTotals ==
    \/ \E pr \in {1, 2}, q \in {1, 2} : AddItemRequest("r1", 1, pr, q)
    \/ AddItemGet("r1")
    \/ AddItemSave("r1")
    \/ AddItemCreate("r1")
    \/ CreateOrderRequest("r1", "alice", 1)
    \/ CreateOrderRead("r1")
    \/ CreateOrderBulk("r1")
    \/ CreateOrderCollect("r1")
    \/ CreateOrderCascade("r1")
    \/ CreateOrderCommit("r1")
    \/ \E c \in TwoCartIds : RetrieveCart("r1", c)
    \/ \E u \in {"alice", Anon}, o \in {1, 2} : ListOrderItems("r1", u, o)
    \/ \E o \in {1, 2} : RetrieveOrder("r1", "alice", o)
    \/ \E pr \in {1, 2}, pf \in {{1}, {2}} : UpdateProduct("r1", "staff", pr, TRUE, 0, pf, {})
    \/ Reply("r1")

SpecTotals == InitOneCart /\ [][NextTotals]_vars

\* One handler serving every caller's requests to the reviews of the products,
\* and staff's deletions of products.
NextReviews ==
    \/ \E u \in Callers, pr \in ProductIds, text \in Descriptions :
          CreateReview("r1", u, pr, text)
    \/ \E u \in Callers, pr \in ProductIds, i \in ReviewIds, text \in Descriptions :
          UpdateReview("r1", u, pr, i, text)
    \/ \E u \in Callers, pr \in ProductIds, i \in ReviewIds : DeleteReview("r1", u, pr, i)
    \/ \E pr \in ProductIds : DeleteProduct("r1", "staff", pr)
    \/ Reply("r1")

SpecReviews == Init /\ [][NextReviews]_vars

\* One handler serving the requests that insert and delete rows with foreign
\* keys: items of two carts, deletions of carts, conversions, removals of order
\* items, and deletions of products and of customers.
NextIntegrity ==
    \/ \E c \in TwoCartIds, pr \in {1, 2} : AddItemRequest("r1", c, pr, 1)
    \/ AddItemGet("r1")
    \/ AddItemSave("r1")
    \/ AddItemCreate("r1")
    \/ \E c \in TwoCartIds : DeleteCartRequest("r1", c)
    \/ DeleteCartItems("r1")
    \/ DeleteCartCommit("r1")
    \/ \E u \in {"alice", "bob"}, c \in TwoCartIds : CreateOrderRequest("r1", u, c)
    \/ CreateOrderRead("r1")
    \/ CreateOrderBulk("r1")
    \/ CreateOrderCollect("r1")
    \/ CreateOrderCascade("r1")
    \/ CreateOrderCommit("r1")
    \/ \E o \in {1, 2}, i \in OrderItemIds : RemoveOrderItem("r1", "alice", o, i)
    \/ \E pr \in ProductIds : DeleteProduct("r1", "staff", pr)
    \/ \E u \in Callers, cu \in CustomerIds : DeleteCustomer("r1", u, cu)
    \/ Reply("r1")

SpecIntegrity == InitTwoCarts /\ [][NextIntegrity]_vars

\* Two handlers, each serving one POST of product 1 to the items of cart 1.
NextAddRace ==
    \E r \in Reqs :
        \/ \E q \in {1, 2} : AddItemRequest(r, 1, 1, q)
        \/ AddItemGet(r)
        \/ AddItemSave(r)
        \/ AddItemCreate(r)

SpecAddRace == InitOneCart /\ [][NextAddRace]_vars

\* Two handlers serving cancel and partial update of order 1, and staff at the
\* change form of the admin site.
NextStatusRace ==
    \/ \E r \in Reqs :
          \/ \E u \in {"alice", "staff"} : CancelRequest(r, u, 1)
          \/ CancelSave(r)
          \/ \E u \in {"alice", "staff"}, s \in {STATUS_SHIPPED, "Z"} :
                SetStatusRequest(r, u, 1, s)
          \/ Reply(r)
    \/ \E s \in STATUS_CHOICES : AdminChangeOrder(1, s)

SpecStatusRace == InitAnyStatus /\ [][NextStatusRace]_vars

(* ------------------------------ properties ---------------------------- *)
\* Handler r takes this step on behalf of a request of the given kind.
StepOf(r, kind) == req'[r] # req[r] /\ req'[r].kind = kind
\* This step is the one in which handler r returns.
Returns(r) == req[r].pc # "done" /\ req'[r].pc = "done"
\* This step commits a conversion.
Converts == convertedFrom' # convertedFrom
HasProfile(u) == CustomersOfUser(u) # {}
Lines(rows) == {<<x.product, x.quantity>> : x \in rows}
ItemsOfOrder(o) == {x \in orderItems : x.order = o}
ConvertedCarts == {p[2] : p \in convertedFrom}

C2_OneOrderPerCart ==
    \A p1, p2 \in convertedFrom : p1[2] = p2[2] => p1[1] = p2[1]

\* C3: the committed store never shows part of a conversion.  Every Order row is
\* there by a committed conversion, has at least one OrderItem, and its source
\* Cart is gone; every OrderItem belongs to an Order; and a step of createOrder
\* that does not commit the conversion leaves every table as it was.
ConversionWhole ==
    /\ \A o \in orders : \E p \in convertedFrom : p[1] = o.id
    /\ \A p \in convertedFrom :
         /\ p[1] \in IdsOf(orders)
         /\ ItemsOfOrder(p[1]) # {}
         /\ p[2] \notin carts
         /\ ItemsOfCart(p[2]) = {}
    /\ \A x \in orderItems : x.order \in IdsOf(orders)

C3_ConversionAllOrNothing ==
    [][/\ ConversionWhole'
       /\ \A r \in Reqs :
            StepOf(r, "createOrder") /\ ~Converts =>
              UNCHANGED <<carts, cartItems, orders, orderItems>>]_vars

\* A conversion whose last step, the deletion of the cart, was refused has
\* returned, and none of what it had written is in the store.
C3_Witness ==
    \E r \in Reqs :
        /\ req[r].pc = "done" /\ req[r].kind = "createOrder"
        /\ req[r].resp.errors = {MsgIntegrityError}
        /\ req[r].order \notin IdsOf(orders)
        /\ req[r].cart \in carts

\* C4: requests served one at a time: createOrder by a caller with a profile,
\* for a cart that an earlier createOrder converted, changes no Order and
\* returns the empty-cart error.
C4_SecondConversionFails ==
    [][\A r \in Reqs :
         /\ StepOf(r, "createOrder")
         /\ HasProfile(req'[r].user)
         /\ req'[r].cart \in ConvertedCarts
         => /\ orders' = orders
            /\ Returns(r) => req'[r].resp = Resp(400, {MsgEmptyCart}, NoRow)]_vars

\* The second createOrder for a converted cart has returned the empty-cart error.
C4_Witness ==
    \E r \in Reqs :
        /\ req[r].pc = "done" /\ req[r].kind = "createOrder"
        /\ req[r].cart \in ConvertedCarts
        /\ req[r].resp = Resp(400, {MsgEmptyCart}, NoRow)

\* C5: requests served one at a time: createOrder by a caller with a profile,
\* for a cart id with no CartItem (an empty cart or no cart), adds no Order and
\* no OrderItem, keeps the carts, and returns 400 with the empty-cart message.
C5_EmptyCartRejected ==
    [][\A r \in Reqs :
         /\ StepOf(r, "createOrder")
         /\ HasProfile(req'[r].user)
         /\ ItemsOfCart(req'[r].cart) = {}
         => /\ UNCHANGED <<orders, orderItems, carts, cartItems>>
            /\ Returns(r) => req'[r].resp = Resp(400, {MsgEmptyCart}, NoRow)]_vars

\* createOrder for an existing empty cart has returned the error; the cart is there.
C5_Witness ==
    \E r \in Reqs :
        /\ req[r].pc = "done" /\ req[r].kind = "createOrder"
        /\ req[r].resp = Resp(400, {MsgEmptyCart}, NoRow)
        /\ req[r].cart \in carts

\* C6: createOrder by an authenticated caller without a Customer returns at
\* once with status 400 and the no-customer message, and changes no table.
C6_NoProfileRejected ==
    [][\A r \in Reqs :
         /\ StepOf(r, "createOrder")
         /\ IsAuthenticated(req'[r].user)
         /\ ~HasProfile(req'[r].user)
         => /\ Returns(r)
            /\ req'[r].resp.code = 400
            /\ req'[r].resp.errors = {MsgNoCustomer}
            /\ UNCHANGED <<orders, orderItems, carts, cartItems>>]_vars

\* The caller without a Customer named a cart that holds an item; the error
\* has been returned and the cart and its item are still there.
C6_Witness ==
    \E r \in Reqs :
        /\ req[r].pc = "done" /\ req[r].kind = "createOrder"
        /\ req[r].user = "staff"
        /\ req[r].resp.errors = {MsgNoCustomer}
        /\ req[r].cart \in carts /\ ItemsOfCart(req[r].cart) # {}

C8_UniqueProductPerCart ==
    \A x, y \in cartItems : x.cart = y.cart /\ x.product = y.product => x = y

\* An insert of a second row for a (cart, product) pair has been refused: the
\* handler returned the integrity error while the cart and a row of the pair
\* are in the table.
C8_Witness ==
    \E r \in Reqs :
        /\ req[r].pc = "done" /\ req[r].kind = "addItem"
        /\ req[r].resp.errors = {MsgIntegrityError}
        /\ req[r].cart \in carts
        /\ ItemsOfPair(req[r].cart, req[r].product) # {}

\* The quantity the pair had in the store before the first of the two writes of
\* SpecAddRace: the first writer returned that quantity plus its own.
PriorQuantity ==
    LET a == req["r1"].resp.row.quantity - req["r1"].quantity
        b == req["r2"].resp.row.quantity - req["r2"].quantity
    IN IF a <= b THEN a ELSE b

\* C9: when the two concurrent addItem requests for the same (cart, product)
\* have both returned, both have succeeded, one row holds the pair, and its
\* quantity is the quantity before the two plus q1 plus q2.
C9_ConcurrentAddsSum ==
    (\A r \in Reqs : req[r].pc = "done") =>
        /\ \A r \in Reqs : req[r].resp.code = 201
        /\ Cardinality(ItemsOfPair(1, 1)) = 1
        /\ QuantityOfPair(1, 1) = PriorQuantity + req["r1"].quantity + req["r2"].quantity

\* C9, second half alone: when both requests have succeeded, no increment is
\* lost.
C9_NoIncrementLost ==
    (\A r \in Reqs : req[r].pc = "done" /\ req[r].resp.code = 201) =>
        QuantityOfPair(1, 1) = PriorQuantity + req["r1"].quantity + req["r2"].quantity

\* C10: requests served one at a time: cancel by a caller who sees the order.
\* A stored status changes only if it was Pending, and then to Cancelled; the
\* handler of a Pending order stores Cancelled before it returns; for each of
\* the six other statuses it returns 400 with the not-pending message at once
\* and the stored status is unchanged.
OrderWithId(o) == {x \in orders : x.id = o}
C10_WitnessRefused ==
    \E r \in Reqs :
        /\ req[r].pc = "done" /\ req[r].kind = "cancel"
        /\ req[r].resp = Resp(400, {MsgNotPending}, NoRow)
        /\ \E x \in OrderWithId(req[r].order) : x.status = STATUS_COMPLETE


\* C11: under every interleaving of a cancel with another cancel, a partial
\* update or a change on the admin site of the same order, the step in which
\* cancel writes Cancelled finds the stored status Pending.
C11_CancelWritesOverPendingOnly ==
    [][\A r \in Reqs :
         req[r].pc = "ca_save" /\ Returns(r) =>
           \A x \in OrderWithId(req[r].order) : x.status = STATUS_PENDING]_vars


\* C12: Complete, Failed and Cancelled are terminal: no step changes the status
\* of an order whose status is one of the three.
TerminalStatuses == {STATUS_COMPLETE, STATUS_FAILED, STATUS_CANCELLED}
C12_TerminalStatusesStay ==
    [][\A x \in orders :
         x.status \in TerminalStatuses =>
           \E y \in orders' : y.id = x.id /\ y.status = x.status]_vars


\* C13: requests served one at a time: a partial update of an existing order by
\* a staff caller.  With a code that is none of the seven it returns a validation
\* error (400) and the orders are unchanged; with one of the seven the order's
\* stored status is that code when the request returns.
C13_SetStatusValidatesAndStores ==
    [][\A r \in Reqs :
         /\ StepOf(r, "setStatus") /\ Returns(r)
         /\ IsStaff(req'[r].user)
         /\ OrderWithId(req'[r].order) # {}
         => IF req'[r].status \in STATUS_CHOICES
            THEN \A y \in orders' : y.id = req'[r].order => y.status = req'[r].status
            ELSE req'[r].resp.code = 400 /\ orders' = orders]_vars


\* C14: a partial update of an order by a caller who is not staff, anonymous
\* or authenticated, the owner included, is refused at once with 403 and
\* changes no order.
C14_OnlyStaffPatchesOrders ==
    [][\A r \in Reqs :
         StepOf(r, "setStatus") /\ ~IsStaff(req'[r].user) =>
           /\ Returns(r)
           /\ req'[r].resp.code = 403
           /\ orders' = orders]_vars

\* The owner of an order has asked for another status of it and was refused.
C14_Witness ==
    \E r \in Reqs, x \in orders :
        /\ req[r].pc = "done" /\ req[r].kind = "setStatus"
        /\ req[r].user = "alice" /\ req[r].order = x.id
        /\ x \in OrdersVisibleTo("alice")
        /\ req[r].status \in STATUS_CHOICES \ {x.status}
        /\ req[r].resp = Resp(403, {MsgForbidden}, NoRow)


\* The orders whose customer is linked to caller u.
OrdersOwnedBy(u) == {x \in orders : \E cu \in CustomersOfUser(u) : cu.id = x.customer}
OrderReads == {"listOrders", "retrieveOrder", "cancel"}

\* C15: requests served one at a time.  An anonymous caller is refused (403) on
\* list, retrieve and cancel.  A non-staff caller's list returns 200 with
\* exactly the ids of the orders of that caller's customer; retrieve and cancel
\* of an existing order of another customer return 404 and change no order.  A
\* staff caller's list returns 200 with every order, retrieve of any existing
\* order returns 200, and cancel of any existing order is not refused as
\* forbidden or not found.
C15_OrderAccessScoped ==
    [][\A r \in Reqs :
         Returns(r) /\ req'[r].kind \in OrderReads =>
           LET u == req'[r].user
               o == req'[r].order
               kind == req'[r].kind
               resp == req'[r].resp
               seen == IF IsStaff(u) THEN orders ELSE OrdersOwnedBy(u)
           IN IF ~IsAuthenticated(u)
              THEN resp.code = 403 /\ orders' = orders
              ELSE /\ kind = "listOrders" => resp.code = 200 /\ resp.ids = IdsOf(seen)
                   /\ kind # "listOrders" /\ o \in IdsOf(orders) \ IdsOf(seen) =>
                        resp.code = 404 /\ orders' = orders
                   /\ kind = "retrieveOrder" /\ o \in IdsOf(seen) => resp.code = 200
                   /\ kind = "cancel" /\ o \in IdsOf(seen) => resp.code \notin {403, 404}]_vars

\* C15, the refusals alone: an anonymous caller gets 403 from list, retrieve and
\* cancel; a non-staff caller gets 404 from retrieve and cancel of another
\* customer's order; neither changes an order.
C15_OthersOrdersHidden ==
    [][\A r \in Reqs :
         Returns(r) /\ req'[r].kind \in OrderReads =>
           LET u == req'[r].user
               o == req'[r].order
           IN /\ ~IsAuthenticated(u) => req'[r].resp.code = 403 /\ orders' = orders
              /\ /\ IsAuthenticated(u) /\ ~IsStaff(u) /\ req'[r].kind # "listOrders"
                 /\ o \in IdsOf(orders) \ IdsOf(OrdersOwnedBy(u))
                 => req'[r].resp.code = 404 /\ orders' = orders]_vars


ItemsOfOrderAfter(o) == {x \in orderItems' : x.order = o}
OrderItemWrites == {"addOrderItem", "updateOrderItem", "removeOrderItem"}

\* C17 as claimed: whatever request is served, the OrderItems of every order
\* that exists are after the step what they were before it.
C17_OrderItemsImmutable ==
    [][\A o \in IdsOf(orders) : ItemsOfOrderAfter(o) = ItemsOfOrder(o)]_vars

\* C17: the OrderItems of an existing order change only in the returning step of
\* an authenticated caller's request to that order's nested order-items resource:
\* a POST (201) adds its quantity to the item of the same product or, with none,
\* adds one item of that product and quantity; a PATCH (200) sets the quantity of
\* the item named; a DELETE (204) removes the item named.  Every other step
\* leaves the items of every order as they were.
C17_OrderItemsChangeOnlyThroughNestedResource ==
    [][\A o \in IdsOf(orders) :
         ItemsOfOrderAfter(o) # ItemsOfOrder(o) =>
           \E r \in Reqs :
              LET q == req'[r]
                  same == {x \in ItemsOfOrder(o) : x.product = q.product}
                  named == {x \in ItemsOfOrder(o) : x.id = q.item}
              IN /\ Returns(r) /\ q.order = o /\ IsAuthenticated(q.user)
                 /\ q.kind \in OrderItemWrites
                 /\ q.kind = "addOrderItem" =>
                      /\ q.resp.code = 201
                      /\ IF same # {}
                         THEN ItemsOfOrderAfter(o) =
                                (ItemsOfOrder(o) \ same) \cup
                                {[x EXCEPT !.quantity = x.quantity + q.quantity] : x \in same}
                         ELSE \E i \in IdsOf(orderItems') \ IdsOf(orderItems) :
                                ItemsOfOrderAfter(o) =
                                  ItemsOfOrder(o) \cup
                                  {[id |-> i, order |-> o, product |-> q.product,
                                    quantity |-> q.quantity]}
                 /\ q.kind = "updateOrderItem" =>
                      /\ q.resp.code = 200
                      /\ ItemsOfOrderAfter(o) =
                           (ItemsOfOrder(o) \ named) \cup
                           {[x EXCEPT !.quantity = q.quantity] : x \in named}
                 /\ q.kind = "removeOrderItem" =>
                      /\ q.resp.code = 204
                      /\ ItemsOfOrderAfter(o) = ItemsOfOrder(o) \ named]_vars

\* Order 2 came from the conversion of cart 1 with product 1 once; bob, who does
\* not own it, has posted product 1 to its items and the item now counts 2.
C17_Witness ==
    \E r \in Reqs :
       /\ req[r].pc = "done" /\ req[r].kind = "addOrderItem"
       /\ req[r].user = "bob" /\ req[r].order = 2 /\ req[r].product = 1
       /\ req[r].resp.code = 201 /\ req[r].resp.row.quantity = 2
       /\ <<2, 1>> \in convertedFrom
       /\ Lines(ItemsOfOrder(2)) = {<<1, 2>>}


\* This step changes no Collection and no Product.
CatalogKept ==
    /\ collections' = collections /\ products' = products /\ collectionOf' = collectionOf

\* C18: a staff caller's DELETE of a collection that products reference is
\* refused at once with 405; a deletion that finds products only when it comes
\* to delete is refused as well; either way no Collection and no Product
\* changes.  The deletion of an existing collection that no product references
\* returns 204 and the collection is gone.  After every step the collection of
\* every Product exists.
C18_CollectionWithProductsKept ==
    [][/\ \A r \in Reqs :
            StepOf(r, "deleteCollection") /\ ProductsOf(req'[r].collection) # {} =>
              /\ Returns(r) /\ CatalogKept
              /\ IsStaff(req'[r].user) =>
                   req'[r].resp.code = IF req[r].pc = "idle" THEN 405 ELSE 500
       /\ \A r \in Reqs :
            /\ StepOf(r, "deleteCollection") /\ req[r].pc = "dcol_delete"
            /\ ProductsOf(req[r].collection) = {} /\ CollectionWithId(req[r].collection) # {}
            => /\ Returns(r) /\ req'[r].resp.code = 204
               /\ collections' = collections \ CollectionWithId(req[r].collection)
       /\ \A pr \in products' : collectionOf'[pr] \in IdsOf(collections')]_vars

\* Staff's first DELETE of collection 2 was refused for its product; the product
\* was then deleted, and the second DELETE of collection 2 has gone through.
C18_Witness ==
    /\ req["r2"].pc = "done" /\ req["r2"].kind = "deleteCollection"
    /\ req["r2"].collection = 2 /\ req["r2"].resp = Resp(405, {MsgHasProducts}, NoRow)
    /\ req["r1"].pc = "done" /\ req["r1"].kind = "deleteCollection"
    /\ req["r1"].collection = 2 /\ req["r1"].resp.code = 204
    /\ 2 \notin products /\ CollectionWithId(2) = {}


\* A deletion that passed the view's check has met a product at the delete.
C18_WitnessRace ==
    \E r \in Reqs : /\ req[r].pc = "done" /\ req[r].kind = "deleteCollection"
                    /\ req[r].resp = Resp(500, {MsgProtected}, NoRow)
                    /\ HasProducts(req[r].collection)


\* The status codes of a refusal handed to the client: the 405 with which the
\* deletion of a collection with products is refused, and 409 Conflict.
ConflictCodes == {405, 409}

\* C19: a staff caller's DELETE of a Product that OrderItems reference returns a
\* refusal of the conflict kind, no server error, and changes no Product, no
\* Collection and no OrderItem.
C19_ProtectedProductConflict ==
    [][\A r \in Reqs :
         /\ StepOf(r, "deleteProduct") /\ IsStaff(req'[r].user)
         /\ OrderItemsOfProduct(req'[r].product) # {}
         => /\ Returns(r) /\ req'[r].resp.code \in ConflictCodes
            /\ CatalogKept /\ orderItems' = orderItems]_vars

\* C19, the stored effect alone: whoever asks, the DELETE of a Product that
\* OrderItems reference returns without a 2xx and changes no Product, no
\* Collection and no OrderItem.
C19_ProtectedProductKept ==
    [][\A r \in Reqs :
         StepOf(r, "deleteProduct") /\ OrderItemsOfProduct(req'[r].product) # {} =>
           /\ Returns(r) /\ req'[r].resp.code \notin {200, 204}
           /\ CatalogKept /\ orderItems' = orderItems]_vars


\* C20: in every state the featured product of every Collection, if set, is a
\* Product whose collection is that Collection.
C20_FeaturedInCollection ==
    \A x \in collections :
       x.featured # 0 => x.featured \in products /\ collectionOf[x.featured] = x.id

\* C20, at the save alone: a step that sets the featured product of a Collection
\* sets it to a Product that is in that Collection at that moment, and in every
\* state a featured product is a Product that exists.
C20_FeaturedCheckedAtSave ==
    [][/\ \A x \in collections, y \in collections' :
            x.id = y.id /\ y.featured # x.featured /\ y.featured # 0 =>
              y.featured \in products /\ collectionOf[y.featured] = y.id
       /\ \A y \in collections' : y.featured # 0 => y.featured \in products']_vars


ProductWrites == {"createProduct", "putProduct", "patchProduct"}
\* This step changes no Product, no Collection, no price and no inventory.
ProductsKept == CatalogKept /\ priceOf' = priceOf /\ inventoryOf' = inventoryOf

\* C21: after every step every Product has a price of at least 1 and an
\* inventory of at least 0; and a staff caller's create, full update or partial
\* update (of a product that exists) whose payload has a price below 1 or an
\* inventory below 0 returns 400 at once and changes no product.
C21_ProductBoundsKept ==
    [][/\ \A pr \in products' : priceOf'[pr] >= 1 /\ inventoryOf'[pr] >= 0
       /\ \A r \in Reqs :
            /\ StepOf(r, req'[r].kind) /\ req'[r].kind \in ProductWrites
            /\ IsStaff(req'[r].user)
            /\ req'[r].kind = "createProduct" \/ req'[r].product \in products
            /\ \/ \E v \in req'[r].price : v < 1
               \/ \E v \in req'[r].inventory : v < 0
            => /\ Returns(r) /\ req'[r].resp.code = 400
               /\ ProductsKept]_vars

\* Product 2 was given the price 2; a later PATCH by staff with the price 0 has
\* been answered 400 with the message of the validator and the price is still 2.
C21_Witness ==
    \E r \in Reqs :
       /\ req[r].pc = "done" /\ req[r].kind = "patchProduct" /\ req[r].user = "staff"
       /\ req[r].product = 2 /\ req[r].price = {0}
       /\ req[r].resp.code = 400 /\ MsgPrice \in req[r].resp.errors
       /\ 2 \in products /\ priceOf[2] = 2


\* C22: after every step every CartItem has a quantity of at least 1.  An
\* addItem with a quantity below 1 returns 400 with the validator's message and
\* leaves the CartItems as they were; so does an updateItemQuantity of an item
\* of the cart; an updateItemQuantity of an item id that the named cart does not
\* hold returns 404 and changes no CartItem and no Cart.
C22_QuantityAtLeastOne ==
    [][/\ \A x \in cartItems' : x.quantity >= 1
       /\ \A r \in Reqs :
            StepOf(r, "addItem") /\ req[r].pc = "idle" /\ req'[r].quantity < 1 =>
              /\ Returns(r) /\ req'[r].resp.code = 400
              /\ MsgQuantity \in req'[r].resp.errors
              /\ cartItems' = cartItems
       /\ \A r \in Reqs :
            StepOf(r, "updateItem") /\ req[r].pc = "idle" =>
              IF ItemInCart(req'[r].cart, req'[r].item) = {}
              THEN /\ Returns(r) /\ req'[r].resp = Resp(404, {MsgNotFound}, NoRow)
                   /\ cartItems' = cartItems /\ carts' = carts
              ELSE req'[r].quantity < 1 =>
                     /\ Returns(r) /\ req'[r].resp = Resp(400, {MsgQuantity}, NoRow)
                     /\ cartItems' = cartItems]_vars

\* An updateItemQuantity with the quantity 0 on an item that counts 2 has been
\* answered 400 and the item still counts 2.
C22_Witness ==
    \E r \in Reqs, x \in cartItems :
       /\ req[r].pc = "done" /\ req[r].kind = "updateItem"
       /\ req[r].cart = x.cart /\ req[r].item = x.id /\ req[r].quantity = 0
       /\ req[r].resp = Resp(400, {MsgQuantity}, NoRow)
       /\ x.quantity = 2

\* C23: an addItem whose product id is the id of no Product returns at once,
\* before any statement of save(), with 400 and 'No product with given product
\* id was found.', and the CartItems are what they were.
C23_UnknownProductRejected ==
    [][\A r \in Reqs :
         StepOf(r, "addItem") /\ req[r].pc = "idle" /\ req'[r].product \notin products =>
           /\ Returns(r) /\ req'[r].resp.code = 400
           /\ MsgNoProduct \in req'[r].resp.errors
           /\ cartItems' = cartItems /\ carts' = carts]_vars

\* An addItem of product 3, which does not exist, with a valid quantity to a
\* cart that holds an item has been refused with the message alone.
C23_Witness ==
    \E r \in Reqs :
       /\ req[r].pc = "done" /\ req[r].kind = "addItem"
       /\ req[r].product = 3 /\ 3 \notin products /\ req[r].quantity >= 1
       /\ req[r].cart \in carts /\ ItemsOfCart(req[r].cart) # {}
       /\ req[r].resp = Resp(400, {MsgNoProduct}, NoRow)


\* C24: requests served one at a time.  A removeItem that names an item the
\* named cart holds deletes that one CartItem and nothing else, returns 204,
\* and leaves the Cart in place; afterwards the cart holds no item of that id,
\* so the same request again is the refused one.  A removeItem that names an
\* item id the named cart does not hold (no such item, or an item of another
\* cart) returns 404 at once and changes no CartItem and no Cart.
C24_RemoveItemExact ==
    [][\A r \in Reqs :
         StepOf(r, "removeItem") =>
           LET c == req'[r].cart
               i == req'[r].item
               hit == {x \in cartItems : x.cart = c /\ x.id = i}
           IN IF req[r].pc = "idle"
              THEN /\ cartItems' = cartItems /\ carts' = carts
                   /\ IF hit = {}
                      THEN Returns(r) /\ req'[r].resp = Resp(404, {MsgNotFound}, NoRow)
                      ELSE ~Returns(r)
              ELSE /\ Returns(r) /\ req'[r].resp.code = 204
                   /\ Cardinality(hit) = 1
                   /\ cartItems' = cartItems \ hit
                   /\ carts' = carts
                   /\ {x \in cartItems' : x.cart = c /\ x.id = i} = {}]_vars

\* Item 1 of cart 1 is gone and cart 1 is still there; a removal of item 2, which
\* cart 2 holds, asked of cart 1 has been answered 404 and item 2 is in place.
C24_Witness ==
    \E r \in Reqs :
       /\ req[r].pc = "done" /\ req[r].kind = "removeItem"
       /\ req[r].cart = 1 /\ req[r].item = 2
       /\ req[r].resp = Resp(404, {MsgNotFound}, NoRow)
       /\ 1 \in carts /\ ItemsWithId(1) = {}
       /\ \E x \in cartItems : x.id = 2 /\ x.cart = 2


\* C25: a read that returns shows totals computed from the rows and the prices
\* of that moment: GET of a cart that exists returns 200 with, for the whole,
\* the sum over its CartItems of quantity times the product's price (0 for an
\* empty cart); the list of an order's items returns for every item quantity
\* times the product's price; GET of an order the caller may see returns 200
\* with the sum over its OrderItems of quantity times the product's price.
C25_TotalsComputedLive ==
    [][\A r \in Reqs :
         Returns(r) =>
           LET q == req'[r]
           IN /\ q.kind = "retrieveCart" /\ q.cart \in carts =>
                   /\ q.resp.code = 200
                   /\ <<0, SumOfLines(ItemsOfCart(q.cart))>> \in q.resp.totals
              /\ q.kind = "listOrderItems" /\ IsAuthenticated(q.user) =>
                   /\ q.resp.code = 200
                   /\ q.resp.totals = {<<x.id, x.quantity * priceOf[x.product]>> :
                                         x \in ItemsOfOrder(q.order)}
              /\ q.kind = "retrieveOrder" /\ OrderWithId(q.order) \cap OrdersVisibleTo(q.user) # {} =>
                   /\ q.resp.code = 200
                   /\ <<0, SumOfLines(ItemsOfOrder(q.order))>> \in q.resp.totals]_vars

\* C25, the reads of carts and of order items alone: their totals are computed
\* from the rows and the prices of the moment of the read.
C25_CartAndItemTotalsLive ==
    [][\A r \in Reqs :
         Returns(r) =>
           LET q == req'[r]
           IN /\ q.kind = "retrieveCart" /\ q.cart \in carts =>
                   /\ q.resp.code = 200
                   /\ <<0, SumOfLines(ItemsOfCart(q.cart))>> \in q.resp.totals
                   /\ ItemsOfCart(q.cart) = {} => q.resp.totals = {<<0, 0>>}
              /\ q.kind = "listOrderItems" /\ IsAuthenticated(q.user) =>
                   /\ q.resp.code = 200
                   /\ q.resp.totals = {<<x.id, x.quantity * priceOf[x.product]>> :
                                         x \in ItemsOfOrder(q.order)}]_vars

\* The item of order 1, one piece of product 1 bought at the price 1, is shown
\* with the total 2 after the price of product 1 was raised to 2.
C25_RepricedOrderItemShown ==
    \E r \in Reqs :
       /\ req[r].pc = "done" /\ req[r].kind = "listOrderItems" /\ req[r].order = 1
       /\ req[r].resp.totals = {<<1, 2>>} /\ priceOf[1] = 2


ReviewWrites == {"createReview", "updateReview", "deleteReview"}
ReviewEdits == {"updateReview", "deleteReview"}

\* C26 as claimed: a Review appears only through an authenticated caller's
\* create, and an update or a delete of a review by an authenticated caller who
\* is neither staff nor the review's author is refused and leaves the reviews as
\* they were.
C26_ReviewsEditedByAuthorOrStaff ==
    [][\A r \in Reqs :
         /\ StepOf(r, "createReview") /\ reviews' # reviews => IsAuthenticated(req'[r].user)
         /\ /\ StepOf(r, req'[r].kind) /\ req'[r].kind \in ReviewEdits
            /\ IsAuthenticated(req'[r].user) /\ ~IsStaff(req'[r].user)
            /\ \E x \in ReviewOfProduct(req'[r].product, req'[r].item) : x.name # req'[r].user
            => /\ req'[r].resp.code \in {403, 404}
               /\ reviews' = reviews]_vars

\* C26: a create, update or delete of a review by an anonymous caller returns
\* 403 and leaves the reviews as they were; a Review appears only through an
\* authenticated caller's create, with that caller as its name.  Every
\* authenticated caller, staff or not, author or not, edits and deletes: an
\* update with a description of a review of the product named returns 200 and
\* sets the description of that review alone, keeping its name and product; a
\* delete returns 204 and removes that review alone.
C26_ReviewsWrittenByAuthenticated ==
    [][\A r \in Reqs :
         StepOf(r, req'[r].kind) /\ req'[r].kind \in ReviewWrites =>
           LET q == req'[r]
               hit == ReviewOfProduct(q.product, q.item)
           IN IF ~IsAuthenticated(q.user)
              THEN q.resp.code = 403 /\ reviews' = reviews
              ELSE /\ q.kind = "createReview" =>
                        \A x \in reviews' \ reviews :
                           x.name = q.user /\ x.product = q.product /\ q.resp.code = 201
                   /\ q.kind = "updateReview" /\ hit # {} /\ q.description # "" =>
                        /\ q.resp.code = 200
                        /\ reviews' = (reviews \ hit) \cup
                                      {[x EXCEPT !.description = q.description] : x \in hit}
                   /\ q.kind = "deleteReview" /\ hit # {} =>
                        q.resp.code = 204 /\ reviews' = reviews \ hit]_vars

\* bob, who is not staff, has changed the description of a review that alice
\* wrote, and was answered 200.
C26_Witness ==
    \E r \in Reqs, x \in reviews :
       /\ req[r].pc = "done" /\ req[r].kind = "updateReview" /\ req[r].user = "bob"
       /\ req[r].product = x.product /\ req[r].item = x.id
       /\ req[r].resp.code = 200
       /\ x.name = "alice" /\ x.description = "E" /\ req[r].description = "E"


\* C27: requests served one at a time.  After every step every CartItem names a
\* Cart and a Product that exist, every OrderItem an Order and a Product that
\* exist, and every Order a Customer that exists.  A step that deletes a Cart
\* deletes that cart and exactly the CartItems of it; a step that deletes a
\* Product deletes exactly the CartItems that name it; a DELETE of a Customer
\* that Orders name does not succeed and leaves customers and orders as they were.
C27_ReferencesHold ==
    [][/\ \A x \in cartItems' : x.cart \in carts' /\ x.product \in products'
       /\ \A x \in orderItems' : x.order \in IdsOf(orders') /\ x.product \in products'
       /\ \A x \in orders' : x.customer \in IdsOf(customers')
       /\ \A r \in Reqs :
            /\ StepOf(r, "deleteCart") /\ carts' # carts =>
                 /\ carts' = carts \ {req'[r].cart}
                 /\ cartItems' = {x \in cartItems : x.cart # req'[r].cart}
            /\ StepOf(r, "deleteProduct") /\ products' # products =>
                 /\ products' = products \ {req'[r].product}
                 /\ cartItems' = {x \in cartItems : x.product # req'[r].product}
            /\ /\ StepOf(r, "deleteCustomer")
               /\ \E x \in orders : x.customer = req'[r].item
               => /\ Returns(r) /\ req'[r].resp.code \notin {200, 204}
                  /\ customers' = customers /\ orders' = orders]_vars

\* alice has asked for the deletion of her Customer, which order 1 names, and
\* was refused; the Customer is in place.  Product 2 has been deleted before,
\* and with it the items that named it.
C27_Witness ==
    \E r \in Reqs :
       /\ req[r].pc = "done" /\ req[r].kind = "deleteCustomer"
       /\ req[r].user = "alice" /\ req[r].item = 1
       /\ req[r].resp = Resp(500, {MsgProtected}, NoRow)
       /\ \E x \in customers : x.id = 1
       /\ \E x \in orders : x.customer = 1
       /\ 2 \notin products /\ cartItems # {}


\* C28: a conversion that commits while other requests edit the same cart puts
\* every CartItem row it deletes into the new Order: for each row removed by
\* the step there is an OrderItem of the new order with the product and the
\* quantity the row had when it was deleted.
C28_DeletedItemsAreOrdered ==
    [][\A r \in Reqs :
          StepOf(r, "createOrder") /\ Converts =>
             \A x \in cartItems \ cartItems' :
                \E y \in orderItems' \ orderItems :
                   /\ y.order = req'[r].order
                   /\ y.product = x.product
                   /\ y.quantity = x.quantity]_vars

\* The Orders of the caller's Customer.
OwnsOrder(u, o) ==
    \E x \in orders : x.id = o /\ \E cu \in CustomersOfUser(u) : cu.id = x.customer

OrderItemRequests == OrderItemWrites \cup {"listOrderItems"}

\* C29: a request on the items of an order, made by a caller who is not staff
\* and whose Customer does not own that order, fails: it ends with an error
\* status, shows no item of the order, and leaves the OrderItems as they were.
C29_OrderItemsScopedToOwner ==
    [][\A r \in Reqs :
          /\ \E k \in OrderItemRequests : StepOf(r, k)
          /\ Returns(r)
          /\ ~IsStaff(req'[r].user)
          /\ req'[r].order \in IdsOf(orders)
          /\ ~OwnsOrder(req'[r].user, req'[r].order)
          => /\ req'[r].resp.code \notin {200, 201, 204}
             /\ req'[r].resp.ids = {}
             /\ orderItems' = orderItems]_vars

CartAndOrderOperations ==
    {"addItem", "updateItem", "removeItem", "deleteCart", "createOrder", "cancel",
     "setStatus"}

\* C30: no statement of addItem, updateItemQuantity, removeItem, deleteCart,
\* createOrder, cancel or setStatus changes the catalog: the products, their
\* inventory, price and collection, and the collections are after the step what
\* they were before it.  A conversion that commits leaves the inventory of the
\* products it orders as it was, whatever the quantities.
C30_CatalogUntouched ==
    [][\A r \in Reqs :
          (\E k \in CartAndOrderOperations : StepOf(r, k)) =>
             /\ products' = products
             /\ inventoryOf' = inventoryOf
             /\ priceOf' = priceOf
             /\ collectionOf' = collectionOf
             /\ collections' = collections]_vars

\* A conversion has committed an Order with an item whose quantity is larger
\* than the inventory of its product, and the inventory is the initial one.
C30_Witness ==
    \E r \in Reqs :
       /\ req[r].pc = "done" /\ req[r].kind = "createOrder"
       /\ \E x \in orders : x.id = req[r].order
       /\ <<req[r].order, req[r].cart>> \in convertedFrom
       /\ \E y \in orderItems :
            /\ y.order = req[r].order
            /\ y.quantity > inventoryOf[y.product]
            /\ inventoryOf[y.product] = 1
============================================================================
